---- MODULE Spec2Model ----
(***************************************************************************)
(* Request orchestration of the finance chat application:                  *)
(*   - the streaming chat endpoint        (src/app/api/chat/route.ts)      *)
(*   - the single-shot external endpoint  (src/app/api/chat/external)      *)
(*   - the single-message completion helper (lib/external-completion)      *)
(*   - the card endpoint's parsing of the helper's text (api/card)         *)
(* One request is followed from its arrival to its response and to the     *)
(* persistence that follows it.  The conversation store, the user lookup,  *)
(* the local-provider probe, the model and the tools are the environment:  *)
(* their outcomes are chosen nondeterministically.                         *)
(***************************************************************************)
EXTENDS Integers, Sequences, FiniteSets, TLC

\* ------------------------------------------------------------------ bounds
\* Tool calls the model may request in one round.
MaxTools == 2
\* Letters of prose before the payload of a model response text.
MaxProse == 4
\* Letters of prose after the payload of a model response text.
MaxTail == 2
\* Tool calls the model may request in one round of a single turn.
MaxFanOut == 6
\* Models a local provider lists.
MaxListed == 2
\* Rounds of the turn whose Step Log is followed entry by entry.
MaxLogRounds == 2

\* ------------------------------------------------------- program constants
\* stopWhen: stepCountIs(10) of the streaming chat endpoint.
ChatStepCap == 10
\* stopWhen: stepCountIs(15) of the external endpoint.
ExternalStepCap == 15
\* stopWhen: stepCountIs(10) of runSingleMessageCompletion.
HelperStepCap == 10
\* The limit the system prompts state: "Max 5 parallel tool calls"
\* (route.ts lines 144 and 198, external route.ts line 222).
MaxParallelToolCalls == 5

VARIABLES
    ep,             \* the entry point the request arrives at
    env,            \* process environment: deployment mode, OPENAI_API_KEY
    pc,             \* position of the handler
    req,            \* the parsed request (body fields, headers, looked-up user)
    resp,           \* what the client has received as the HTTP response
    probe,          \* outcome of the local-provider probe ("none": not probed)
    selectedModel,  \* the model handle provider resolution chose
    modelInfo,      \* the label provider resolution produced
    store,          \* messages the conversation store holds, by session
    store0,         \* the store as it was when the request arrived
    storeFault,     \* a call of the store returned an error or threw
    nextId,         \* source of fresh identifiers (randomUUID)
    round,          \* number of model rounds started
    modelState,     \* the model's position in the current round
    tools,          \* state of each tool call of the current round
    toolsInvoked,   \* a tool has run in this turn (stepLog.length > 0)
    loopOutcome,    \* how the tool-calling loop ended ("none": not ended)
    thrown,         \* the error a handler's catch block received ("none")
    cardReq,        \* card endpoint: the symbol and the completion's result
    card,           \* card endpoint: the response
    aborted,        \* the request's abort signal has fired
    finishReason,   \* finish reason of the loop's last round ("none")
    stream,         \* chat: the events of the UI message stream
    stepLog,        \* chat: stepLog entries of the current round's calls
    delivered,      \* rounds whose text the caller has received
    sessions,       \* ids of the session records the store holds
    race,           \* two chat requests on one session: their positions
    offer,          \* the prompt and tool set a request is run with
    pick,           \* local model choice: the probed list and the choice
    turnText,       \* the text deltas of the turn and the collected answer
    turnLog,        \* chat: the Step Log of one turn, entry by entry
    owner           \* the user each session record belongs to

vars == << ep, env, pc, req, resp, probe, selectedModel, modelInfo, store,
           store0, storeFault, nextId, round, modelState, tools, toolsInvoked, loopOutcome,
           thrown, cardReq, card, aborted, finishReason, stream, stepLog,
           delivered, sessions, race, offer, pick, turnText, turnLog, owner >>

EntryPoints == {"chat", "external", "helper"}

ToolIds == 1..MaxTools

\* ------------------------------------------------------------ identifiers
\* An identifier is known by its format and a serial number.
\* UUID_REGEX.test(id) of onFinish.
UUID_REGEX(id) == id.fmt = "uuid"

\* randomUUID(): a fresh identifier in the canonical format.
randomUUID(n) == [fmt |-> "uuid", n |-> n]

\* generateId() of the SDK: a fresh identifier that is not in UUID format.
generateId(n) == [fmt |-> "other", n |-> n]

\* ------------------------------------------------------------- responses
\* text: the answer text the client has received ("none", or "answer").
NoResponse ==
    [kind |-> "none", status |-> 0, error |-> "", success |-> "na",
     text |-> "none"]

\* Response.json({error: ...}, {status}) of the chat endpoint.
ChatError(discriminator, status) ==
    [kind |-> "json", status |-> status, error |-> discriminator,
     success |-> "na", text |-> "none"]

\* result.toUIMessageStreamResponse(): a streamed response.
StreamResponse ==
    [kind |-> "stream", status |-> 200, error |-> "", success |-> "na",
     text |-> "none"]

\* The messages thrown errors may carry, by what the catch block looks for.
ErrClasses == {"plain", "tool", "thinking"}

\* An error that reached a handler's catch block: where it was thrown and
\* the class of its message.
Thrown(at, cls) == [at |-> at, cls |-> cls]

NoThrow == Thrown("none", "none")

\* Variant: the last return of the catch block carries no discriminator.
ChatCatchBare(msgClass) ==
    IF msgClass \in {"tool", "thinking"}
    THEN ChatError("MODEL_COMPATIBILITY_ERROR", 400)
    ELSE ChatError("", 500)

\* catch block of the chat endpoint: classification by the error message.
ChatCatch(msgClass) ==
    LET isToolError == msgClass = "tool"
        isThinkingError == msgClass = "thinking"
    IN  IF isToolError \/ isThinkingError
        THEN ChatError("MODEL_COMPATIBILITY_ERROR", 400)
        ELSE ChatError("CHAT_ERROR", 500)

\* -------------------------------------------------------------- messages
\* A stored message: identifier, role, content parts, processing time
\* ("time": a measured processing_time_ms, "none": absent).
StoredMsg(id, role, content, pt) ==
    [id |-> id, role |-> role, content |-> content, pt |-> pt]

\* A message as the client sends it (UI message: id, role, parts).
UIMsg(id, role, parts) == [id |-> id, role |-> role, parts |-> parts]

\* Sessions: "s1" exists when the request arrives; "new" is the session a
\* request without sessionId gets (sessionId = randomUUID()).
SessionIds == {"s1", "new", "new2"}

\* The history a session may hold when the request arrives.
InitialStores ==
    { << >>,
      << StoredMsg(randomUUID(1), "user", << "h1" >>, "none"),
         StoredMsg(randomUUID(2), "assistant", << "h2" >>, "time") >> }

\* The stored history as a client that loaded it sends it back.
AsUIMessages(msgs) ==
    [i \in 1..Len(msgs) |-> UIMsg(msgs[i].id, msgs[i].role, msgs[i].content)]

\* The last message of a chat request: a new user question, or an
\* assistant message the client asks to continue.  The client names its
\* new messages with generateId(); the history it loaded carries the
\* stored identifiers.
LastMessages ==
    { UIMsg(generateId(90), "user", << "q" >>),
      UIMsg(generateId(91), "assistant", << "p" >>) }

\* The body field `messages` of a chat request.
MessagesFields(stored) ==
    { [shape |-> s, list |-> << >>] : s \in {"missing", "notArray", "array"} }
    \cup { [shape |-> "array", list |-> h \o << m >>] :
             h \in {<< >>, AsUIMessages(stored)}, m \in LastMessages }

NoRequest ==
    [body |-> "none", messages |-> [shape |-> "missing", list |-> << >>],
     message |-> "missing", sessionId |-> "none", valyuAccessToken |-> FALSE,
     isNewSession |-> FALSE, user |-> "none", ollamaEnabledHeader |-> TRUE,
     model |-> "openai", disableLocal |-> FALSE]

\* ---------------------------------------------------- chat: lines 13 - 36
\* if (!messages || !Array.isArray(messages) || messages.length === 0)
InvalidMessages(m) ==
    \/ m.shape = "missing"
    \/ m.shape = "notArray"
    \/ Len(m.list) = 0

\* Variant: the deployment mode is not looked at.
AuthRequiredInAnyMode(isSelfHosted, valyuAccessToken) ==
    ~valyuAccessToken

\* if (!isSelfHosted && !valyuAccessToken)
AuthRequired(isSelfHosted, valyuAccessToken) ==
    ~isSelfHosted /\ ~valyuAccessToken

\* The UI message stream of the chat endpoint, as far as the client has
\* it: the round of its latest event, the calls of that round whose
\* started / finished event it holds, whether the round's text has ended,
\* and the number of step-timing events.
StreamState(r, started, finished, textEnded, timing) ==
    [round |-> r, started |-> started, finished |-> finished,
     textEnded |-> textEnded, timing |-> timing]

NoStream == StreamState(0, {}, {}, FALSE, 0)

\* An event of the UI message stream.
Part(type, r, call) == [type |-> type, round |-> r, call |-> call]

\* The stream after the event is written to it.  No step-timing event
\* exists among the events toUIMessageStreamResponse writes.
EmitPart(s, part) ==
    LET cur == IF part.round = s.round THEN s
               ELSE StreamState(part.round, {}, {}, FALSE, s.timing)
    IN  CASE part.type = "tool-input-available" ->
                [cur EXCEPT !.started = @ \cup {part.call}]
          [] part.type \in {"tool-output-available", "tool-output-error"} ->
                [cur EXCEPT !.finished = @ \cup {part.call}]
          [] part.type = "text-end" -> [cur EXCEPT !.textEnded = TRUE]
          [] OTHER -> cur

\* The stepLog entries of the current round's calls: the calls with a
\* "start" entry and the calls with a "done" entry.
NoStepLog == [started |-> {}, done |-> {}]

\* Variant: a tool does not log its start.
StepLogStartMissing(log, t) == log

\* A tool pushes its "start" entry when it is invoked.
StepLogStart(log, t) == [log EXCEPT !.started = @ \cup {t}]

\* A tool pushes its "done" entry when its execution has succeeded.
StepLogDone(log, t, outcome) ==
    IF outcome = "succeeds" THEN [log EXCEPT !.done = @ \cup {t}] ELSE log

\* The text of a turn: the text deltas in the order they arrived, and the
\* responseText the external endpoint has collected.
NoText == [deltas |-> << >>, responseText |-> << >>]

\* The text the model writes in round r (it may be empty).
TextDelta(r) == << "text", r >>

\* `fullResult.text` of the external endpoint: fullResult is the
\* streamText result itself, and its text is a promise.
FullResultText(chunks) == "promise"

\* Variant: the answer is the text of the last round only.
ExternalResponseTextLastRound(chunks, fullText) ==
    IF chunks = << >> THEN chunks ELSE << chunks[Len(chunks)] >>

\* external, lines 246 - 258: responseText collects the chunks of
\* result.textStream, and is replaced by fullResult.text when that is
\* text and longer (the `length` of a promise is undefined, and
\* undefined > n is false).
ExternalResponseText(chunks, fullText) ==
    IF fullText # "promise" /\ Len(fullText) > Len(chunks)
    THEN fullText
    ELSE chunks

\* The Step Log of one chat turn: the array `stepLog` entry by entry, the
\* round, the calls of the round (made, executing), and the steps of the
\* step-log part that onFinish attached.
NoTurnLog ==
    [entries |-> << >>, round |-> 0, called |-> {}, running |-> {},
     attached |-> FALSE, steps |-> << >>]

\* stepLog.push({phase, toolName, ...}) of a tool.
PushEntry(entries, phase, t, r) ==
    Append(entries, [phase |-> phase, toolName |-> t, round |-> r])

\* Variant: the part lists the finished steps only.
StepLogPartDoneOnly(entries) ==
    SelectSeq(entries, LAMBDA e : e.phase = "done")

\* {type: 'step-log', steps: [...stepLog]}: the steps of the part.
StepLogPart(entries) == entries

\* The rounds from .. to whose text the caller has (0 .. 0: none).
Delivery(from, to) == [from |-> from, to |-> to]

NoDelivery == Delivery(0, 0)

\* No pair of racing requests.
NoRace == << >>

\* No request configuration computed.
NoOffer == [format |-> "none", header |-> "none", prompt |-> "none",
            tools |-> {}, stopWhen |-> 0]

\* No local model chosen.
NoPick == [provider |-> "none", listed |-> << >>, requested |-> << >>,
           outcome |-> "none", chosen |-> << >>, label |-> << >>,
           think |-> "absent", usingLocal |-> FALSE]

\* Response.json of the card route.
CardResponse(status, success, title, content) ==
    [status |-> status, success |-> success, title |-> title,
     content |-> content]

NoCard == CardResponse(0, FALSE, "", "")

NoCardRequest == [symbol |-> "none", completion |-> "none", text |-> << >>]

\* The users session records can belong to: the caller the requests are
\* authenticated as, and another user.
Users == {"u1", "u2"}

\* The session records the store holds belong to u; an id without a record
\* belongs to nobody.
FirstOwners(ss, u) == [s \in SessionIds |-> IF s \in ss THEN u ELSE "none"]

Init ==
    /\ ep \in EntryPoints
    /\ env \in [selfHosted : BOOLEAN, hasOpenAIKey : BOOLEAN]
    /\ pc = "idle"
    /\ req = NoRequest
    /\ resp = NoResponse
    /\ probe = "none"
    /\ selectedModel = "none"
    /\ modelInfo = "none"
    /\ store \in { [s \in SessionIds |-> IF s = "s1" THEN h ELSE << >>] :
                      h \in InitialStores }
    /\ store0 = store
    /\ storeFault = FALSE
    /\ nextId = 3
    /\ round = 0
    /\ modelState = "idle"
    /\ tools = [t \in ToolIds |-> "none"]
    /\ toolsInvoked = FALSE
    /\ loopOutcome = "none"
    /\ thrown = NoThrow
    /\ cardReq = NoCardRequest
    /\ card = NoCard
    /\ aborted = FALSE
    /\ finishReason = "none"
    /\ stream = NoStream
    /\ stepLog = NoStepLog
    /\ delivered = NoDelivery
    /\ sessions = {"s1"}
    /\ race = NoRace
    /\ offer = NoOffer
    /\ pick = NoPick
    /\ turnText = NoText
    /\ turnLog = NoTurnLog
    /\ owner = FirstOwners(sessions, "u1")

\* The chat handler from req.json() to the auth check.
\*   body "unparseable": req.json() rejects;  body "null": the destructuring
\*   of line 14 throws a TypeError;  lookup "throws": getUserFromRequest
\*   rejects.
ChatReceive ==
    /\ ep = "chat" /\ pc = "idle"
    /\ \E body \in {"unparseable", "null", "object"},
          m \in MessagesFields(store["s1"]),
          sid \in {"none", "s1"},
          token \in BOOLEAN,
          lookup \in {"throws", "anon", "user"},
          cls \in ErrClasses :
        LET parsed == [NoRequest EXCEPT
                          !.body = body, !.messages = m, !.sessionId = sid,
                          !.valyuAccessToken = token,
                          !.user = IF lookup = "user" THEN "u1" ELSE "none"]
            fail(c) == /\ req' = [NoRequest EXCEPT !.body = body]
                       /\ thrown' = Thrown("body", c)
                       /\ resp' = ChatCatch(c)
                       /\ pc' = "done"
        IN  CASE body = "unparseable" ->
                    /\ m = NoRequest.messages /\ sid = "none" /\ ~token
                    /\ lookup = "anon"
                    /\ fail(cls)
              [] body = "null" ->
                    /\ m = NoRequest.messages /\ sid = "none" /\ ~token
                    /\ lookup = "anon" /\ cls = "plain"
                    /\ fail("plain")
              [] OTHER ->
                    IF InvalidMessages(m)
                    THEN /\ lookup = "anon" /\ cls = "plain"
                         /\ req' = [parsed EXCEPT !.user = "none"]
                         /\ resp' = ChatError("INVALID_REQUEST", 400)
                         /\ pc' = "done"
                         /\ UNCHANGED thrown
                    ELSE IF lookup = "throws"
                    THEN /\ req' = parsed
                         /\ thrown' = Thrown("lookup", cls)
                         /\ resp' = ChatCatch(cls)
                         /\ pc' = "done"
                    ELSE /\ cls = "plain"
                         /\ req' = parsed
                         /\ UNCHANGED thrown
                         /\ IF AuthRequired(env.selfHosted, token)
                            THEN /\ resp' = ChatError("AUTH_REQUIRED", 401)
                                 /\ pc' = "done"
                            ELSE /\ resp' = NoResponse
                                 /\ pc' = "resolve"
    /\ UNCHANGED << owner, turnLog, turnText, ep, env, cardReq, card, race, offer, pick, store0, sessions, aborted, finishReason, stream, stepLog, delivered, storeFault, probe, selectedModel, modelInfo, store, nextId,
                    round, modelState, tools, toolsInvoked, loopOutcome >>

\* ------------------------------------------------- provider resolution
\* What the probe of the local provider's listing endpoint can yield:
\*   "timeout"  fetch rejects (AbortSignal.timeout(3000), network error)
\*   "notOk"    !response.ok
\*   "noModels" models.length === 0
\*   "ok"       a non-empty model list
ProbeOutcomes == {"timeout", "notOk", "noModels", "ok"}

ProbeFailed(p) == p \in {"timeout", "notOk", "noModels"}

\* Variant: no gateway alias; without a key there is no model.
ChatRemoteModelKeyOnly(hasOpenAIKey) ==
    IF hasOpenAIKey THEN "openai" ELSE "none"

\* chat: selectedModel = hasOpenAIKey ? openai(...) : "openai/gpt-5.2-..."
ChatRemoteModel(hasOpenAIKey) == IF hasOpenAIKey THEN "openai" ELSE "gateway"

\* Variant: the chat endpoint probes whatever the header says.
ChatProbesAnyHeader(isSelfHosted, localEnabled) == isSelfHosted

\* chat: if (isSelfHosted && localEnabled)
ChatProbes(isSelfHosted, localEnabled) == isSelfHosted /\ localEnabled

\* chat: lines 38 - 90.
ChatResolve ==
    /\ ep = "chat" /\ pc = "resolve"
    /\ \E header \in BOOLEAN, p \in ProbeOutcomes :
        LET localEnabled == header
            remote == ChatRemoteModel(env.hasOpenAIKey)
        IN  /\ req' = [req EXCEPT !.ollamaEnabledHeader = header]
            /\ IF ChatProbes(env.selfHosted, localEnabled)
               THEN /\ probe' = p
                    /\ IF p = "ok"
                       THEN /\ selectedModel' = "local"
                            /\ modelInfo' = "local"
                       ELSE /\ selectedModel' = remote
                            /\ modelInfo' = remote \o "-fallback"
               ELSE /\ p = "ok"
                    /\ probe' = "none"
                    /\ selectedModel' = remote
                    /\ modelInfo' = remote \o "-valyu"
    /\ pc' = "saveUser"
    /\ UNCHANGED << owner, turnLog, turnText, ep, env, cardReq, card, race, offer, pick, store0, sessions, aborted, finishReason, stream, stepLog, delivered, storeFault, resp, store, nextId, round, modelState, tools,
                    toolsInvoked, loopOutcome, thrown >>

\* NextResponse.json({success: false, error, ...}, {status}) of the
\* external endpoint.
ExternalError(status, message) ==
    [kind |-> "json", status |-> status, error |-> message,
     success |-> "false", text |-> "none"]

\* NextResponse.json({success: true, response, ...}) of the external endpoint.
ExternalSuccess ==
    [kind |-> "json", status |-> 200, error |-> "", success |-> "true",
     text |-> "answer"]

\* external: if (!message || typeof message !== 'string' ||
\*               message.trim().length === 0)
InvalidMessage(message) == message \in {"missing", "notString", "blank"}

\* external: lines 41 - 62.  Any throw lands in the catch of line 308.
ExternalReceive ==
    /\ ep = "external" /\ pc = "idle"
    /\ \E body \in {"unparseable", "null", "object"},
          message \in {"missing", "notString", "blank", "text"},
          sid \in {"none", "s1"} \cup sessions,
          lookup \in {"throws", "anon", "user"} :
        LET parsed == [NoRequest EXCEPT
                          !.body = body, !.message = message,
                          !.sessionId = sid,
                          !.user = IF lookup = "user" THEN "u1" ELSE "none"]
        IN  IF body # "object"
            THEN /\ message = "missing" /\ sid = "none" /\ lookup = "anon"
                 /\ req' = [NoRequest EXCEPT !.body = body]
                 /\ thrown' = Thrown("body", "plain")
                 /\ resp' = ExternalError(500, "thrown")
                 /\ pc' = "done"
            ELSE IF InvalidMessage(message)
            THEN /\ lookup = "anon"
                 /\ req' = parsed
                 /\ resp' = ExternalError(400, "message required")
                 /\ pc' = "done"
                 /\ UNCHANGED thrown
            ELSE IF lookup = "throws"
            THEN /\ req' = parsed
                 /\ thrown' = Thrown("lookup", "plain")
                 /\ resp' = ExternalError(500, "thrown")
                 /\ pc' = "done"
            ELSE /\ req' = parsed
                 /\ resp' = NoResponse
                 /\ pc' = "resolve"
                 /\ UNCHANGED thrown
    /\ UNCHANGED << owner, turnLog, turnText, ep, env, cardReq, card, race, offer, pick, store0, sessions, aborted, finishReason, stream, stepLog, delivered, storeFault, probe, selectedModel, modelInfo, store, nextId,
                    round, modelState, tools, toolsInvoked, loopOutcome >>

\* Variant: the external endpoint probes whatever model is named.
ExternalProbesAnyModel(isSelfHosted, localEnabled, model) ==
    isSelfHosted /\ localEnabled

\* external: if (isSelfHosted && localEnabled && model === 'ollama')
ExternalProbes(isSelfHosted, localEnabled, model) ==
    isSelfHosted /\ localEnabled /\ model = "ollama"

\* Variant: without a key the external endpoint selects the gateway alias.
ExternalRemoteModelGateway(hasOpenAIKey) ==
    IF hasOpenAIKey THEN "openai" ELSE "gateway"

\* external: the remote branch and the catch of the probe:
\*   if (!hasOpenAIKey) return 500; selectedModel = openai(...)
ExternalRemoteModel(hasOpenAIKey) == IF hasOpenAIKey THEN "openai" ELSE "none"

\* external: lines 66 - 135.
ExternalResolve ==
    /\ ep = "external" /\ pc = "resolve"
    /\ \E header \in BOOLEAN, disableLocal \in BOOLEAN,
          model \in {"openai", "ollama"}, p \in ProbeOutcomes :
        LET localEnabled == ~disableLocal /\ header
            probes == ExternalProbes(env.selfHosted, localEnabled, model)
            remote == ExternalRemoteModel(env.hasOpenAIKey)
        IN  /\ req' = [req EXCEPT !.ollamaEnabledHeader = header,
                                  !.disableLocal = disableLocal,
                                  !.model = model]
            /\ IF probes THEN probe' = p ELSE p = "ok" /\ probe' = "none"
            /\ IF probes /\ p = "ok"
               THEN /\ selectedModel' = "local"
                    /\ modelInfo' = "local"
                    /\ pc' = "load"
                    /\ UNCHANGED resp
               ELSE IF remote = "none"
               THEN /\ selectedModel' = "none"
                    /\ modelInfo' = "none"
                    /\ resp' = ExternalError(500,
                                   IF probes THEN "local unavailable, no key"
                                             ELSE "key required")
                    /\ pc' = "done"
               ELSE /\ selectedModel' = remote
                    /\ modelInfo' = IF probes THEN "openai-fallback"
                                              ELSE "openai"
                    /\ pc' = "load"
                    /\ UNCHANGED resp
    /\ UNCHANGED << owner, turnLog, turnText, ep, env, cardReq, card, race, offer, pick, store0, sessions, aborted, finishReason, stream, stepLog, delivered, storeFault, store, nextId, round, modelState, tools,
                    toolsInvoked, loopOutcome, thrown >>

\* helper: if (disableLocal || !isSelfHostedMode())
HelperProbes(disableLocal, isSelfHosted) == ~(disableLocal \/ ~isSelfHosted)

\* helper: lines 27 - 56.  Both the remote branch and the catch of the
\* probe select openai(...), whether or not a key is configured.
HelperRemoteModel == "openai"

HelperResolve ==
    /\ ep = "helper" /\ pc = "idle"
    /\ \E disableLocal \in BOOLEAN, p \in ProbeOutcomes :
        LET probes == HelperProbes(disableLocal, env.selfHosted)
        IN  /\ req' = [NoRequest EXCEPT !.body = "call", !.message = "text",
                                        !.disableLocal = disableLocal]
            /\ IF probes THEN probe' = p ELSE p = "ok" /\ probe' = "none"
            /\ selectedModel' = IF probes /\ p = "ok" THEN "local"
                                                        ELSE HelperRemoteModel
            /\ modelInfo' = "none"
    /\ pc' = "loop"
    /\ UNCHANGED << owner, turnLog, turnText, ep, env, cardReq, card, race, offer, pick, store0, sessions, aborted, finishReason, stream, stepLog, delivered, storeFault, resp, store, nextId, round, modelState, tools,
                    toolsInvoked, loopOutcome, thrown >>

\* ----------------------------------------------------- conversation store
\* How a call of the store adapter can end: "ok", "error" (a returned
\* {error} with no data), "throws" (a rejected promise).
StoreOutcomes == {"ok", "error", "throws"}

\* db.getChatMessages(sessionId): the `data` the caller destructures, after
\* its `|| []`.
getChatMessages(st, sid, outcome) ==
    IF outcome = "ok" THEN st[sid] ELSE << >>

\* Variant: a save adds the list given to the one stored.
saveChatMessagesAppending(st, sid, messages, outcome) ==
    IF outcome = "ok" THEN [st EXCEPT ![sid] = @ \o messages] ELSE st

\* db.saveChatMessages(sessionId, messages): the session's list is replaced
\* by the list given.
saveChatMessages(st, sid, messages, outcome) ==
    IF outcome = "ok" THEN [st EXCEPT ![sid] = messages] ELSE st

\* .map(msg => ({id: msg.id, role: msg.role, content: ...})) of the
\* user-turn saves: the processing time is not carried over.
IdRoleContent(msgs) ==
    [i \in 1..Len(msgs) |->
        StoredMsg(msgs[i].id, msgs[i].role, msgs[i].content, "none")]

\* chat, lines 109 - 117: the list of the user-turn save.
ChatUserTurnList(existingMessages, lastMessage, n) ==
    IdRoleContent(existingMessages
                  \o << StoredMsg(randomUUID(n), "user", lastMessage.parts, "none") >>)

\* Variant: the caller is not looked at.
ChatSavesUserTurnAnyCaller(r) ==
    /\ r.sessionId # "none"
    /\ Len(r.messages.list) > 0
    /\ r.messages.list[Len(r.messages.list)].role = "user"

\* chat: if (user && sessionId && messages.length > 0) and
\*       if (lastMessage.role === 'user')
ChatSavesUserTurn(r) ==
    /\ r.user # "none"
    /\ r.sessionId # "none"
    /\ Len(r.messages.list) > 0
    /\ r.messages.list[Len(r.messages.list)].role = "user"

\* chat: lines 102 - 123 and the start of the stream (204 - 268).  A throw
\* of the store lands in the catch of line 269; a returned error is not
\* looked at.
ChatSaveUser ==
    /\ ep = "chat" /\ pc = "saveUser"
    /\ \E g \in StoreOutcomes, sv \in StoreOutcomes, up \in {"ok", "throws"},
          cls \in ErrClasses :
        LET messages == req.messages.list
            lastMessage == messages[Len(messages)]
            existingMessages == getChatMessages(store, req.sessionId, g)
            saved == saveChatMessages(store, req.sessionId,
                        ChatUserTurnList(existingMessages, lastMessage, nextId), sv)
            catch(st, n) == /\ store' = st
                            /\ nextId' = n
                            /\ thrown' = Thrown("store", cls)
                            /\ resp' = ChatCatch(cls)
                            /\ pc' = "done"
            goOn(st, n) ==   /\ cls = "plain"
                             /\ store' = st
                             /\ nextId' = n
                             /\ resp' = StreamResponse
                             /\ pc' = "loop"
                             /\ UNCHANGED thrown
        IN  /\ storeFault' = (storeFault \/ g # "ok" \/ sv # "ok" \/ up # "ok")
            /\ IF ~ChatSavesUserTurn(req)
               THEN g = "ok" /\ sv = "ok" /\ up = "ok" /\ goOn(store, nextId)
               ELSE IF g = "throws"
               THEN sv = "ok" /\ up = "ok" /\ catch(store, nextId)
               ELSE IF sv = "throws"
               THEN up = "ok" /\ catch(store, nextId + 1)
               ELSE IF up = "throws"
               THEN catch(saved, nextId + 1)
               ELSE goOn(saved, nextId + 1)
    /\ UNCHANGED << owner, turnLog, turnText, ep, env, cardReq, card, race, offer, pick, store0, sessions, aborted, finishReason, stream, stepLog, delivered, req, probe, selectedModel, modelInfo, round,
                    modelState, tools, toolsInvoked, loopOutcome >>

\* ------------------------------------------------ the tool-calling loop
\* streamText / generateText with stopWhen: stepCountIs(n).
StepCap(e) ==
    CASE e = "chat" -> ChatStepCap
      [] e = "external" -> ExternalStepCap
      [] OTHER -> HelperStepCap

\* Variant: the stop condition holds one step late.
stepCountIsLate(n, steps) == steps = n + 1

\* stepCountIs(n): the stop condition holds when n steps have been made.
stepCountIs(n, steps) == steps = n

\* How the execution of a tool can end.
ToolOutcomes == {"succeeds", "fails"}

\* The state of a call whose execution has ended: its tool result is with
\* the loop ("done"), or, when the execution failed, its tool error is
\* ("error"); both are handed to the model in the next round.
ToolResult(outcome) == IF outcome = "fails" THEN "error" ELSE "done"

\* Variant: only calls that succeeded count as resolved.
AllSucceeded(ts) == \A t \in DOMAIN ts : ts[t] \in {"none", "done"}

\* Every tool call of the round has resolved.
AllResolved(ts) == \A t \in DOMAIN ts : ts[t] # "running"

\* The model requested a tool in the round.
SomeCalled(ts) == \E t \in DOMAIN ts : ts[t] # "none"

\* Variant: the next round does not wait for the round's tool calls.
ContinuesLoopNoBarrier(e, r, ms, ts) ==
    /\ ms = "ended"
    /\ SomeCalled(ts)
    /\ ~stepCountIs(StepCap(e), r)

\* The loop goes on to another round: the round's model output has ended,
\* it requested tools, all their results are in, and the stop condition
\* does not hold.
ContinuesLoop(e, r, ms, ts) ==
    /\ ms = "ended"
    /\ SomeCalled(ts)
    /\ AllResolved(ts)
    /\ ~stepCountIs(StepCap(e), r)

\* The loop ends: no tool was requested, or the stop condition holds.
EndsLoop(e, r, ms, ts) ==
    /\ ms = "ended"
    /\ AllResolved(ts)
    /\ (~SomeCalled(ts) \/ stepCountIs(StepCap(e), r))

\* A model round starts.
StartRound ==
    /\ pc = "loop" /\ loopOutcome = "none"
    /\ \/ round = 0 /\ modelState = "idle"
       \/ ContinuesLoop(ep, round, modelState, tools)
    /\ round' = round + 1
    /\ modelState' = "streaming"
    /\ tools' = [t \in DOMAIN tools |-> "none"]
    /\ stepLog' = NoStepLog
    /\ stream' = IF ep = "chat"
                 THEN EmitPart(stream, Part("start-step", round + 1, 0))
                 ELSE stream
    /\ UNCHANGED << owner, turnLog, turnText, ep, env, cardReq, card, race, offer, pick, store0, sessions, aborted, finishReason,
                    delivered, storeFault, pc, req, resp, probe,
                    selectedModel, modelInfo, store, nextId, toolsInvoked,
                    loopOutcome, thrown >>

\* streamText: the model's output carries a tool call; its execution
\* starts while the output is still streaming.  Calls are numbered in the
\* order the output carries them.
ModelCallsTool(t) ==
    /\ pc = "loop" /\ ep \in {"chat", "external"}
    /\ modelState = "streaming"
    /\ tools[t] = "none"
    /\ \A u \in 1..(t - 1) : tools[u] # "none"
    /\ tools' = [tools EXCEPT ![t] = "running"]
    /\ toolsInvoked' = TRUE
    /\ IF ep = "chat"
       THEN /\ stepLog' = StepLogStart(stepLog, t)
            /\ stream' = EmitPart(stream,
                                  Part("tool-input-available", round, t))
       ELSE UNCHANGED << stepLog, stream >>
    /\ UNCHANGED << owner, turnLog, turnText, ep, env, cardReq, card, race, offer, pick, store0, sessions, aborted, finishReason,
                    delivered, storeFault, pc, req, resp, probe,
                    selectedModel, modelInfo, store, nextId, round,
                    modelState, loopOutcome, thrown >>

\* The model's output of the round ends.  generateText (helper) starts the
\* round's tool calls now, all together.
ModelEndsRound ==
    /\ pc = "loop" /\ modelState = "streaming"
    /\ modelState' = "ended"
    /\ IF ep = "helper"
       THEN \E k \in 0..Len(tools) :
               LET called == 1..k
               IN  /\ tools' = [t \in DOMAIN tools |->
                                   IF t \in called THEN "running" ELSE "none"]
                   /\ toolsInvoked' = (toolsInvoked \/ called # {})
       ELSE UNCHANGED << tools, toolsInvoked >>
    /\ IF ep = "chat"
       THEN /\ stream' = EmitPart(stream, Part("text-end", round, 0))
            /\ delivered' = Delivery(1, round)
       ELSE UNCHANGED << stream, delivered >>
    /\ turnText' = IF ep = "helper" THEN turnText
                   ELSE [turnText EXCEPT !.deltas = Append(@, TextDelta(round))]
    /\ UNCHANGED << owner, turnLog, ep, env, cardReq, card, race, offer, pick, store0, sessions, aborted, finishReason,
                    stepLog, storeFault, pc, req, resp, probe, selectedModel,
                    modelInfo, store, nextId, round, loopOutcome, thrown >>

\* A tool call resolves: its execution succeeds or fails.
ToolResolves(t) ==
    /\ pc = "loop"
    /\ tools[t] = "running"
    /\ \E outcome \in ToolOutcomes :
          /\ tools' = [tools EXCEPT ![t] = ToolResult(outcome)]
          /\ IF ep = "chat"
             THEN /\ stepLog' = StepLogDone(stepLog, t, outcome)
                  /\ stream' = EmitPart(stream,
                        Part(IF outcome = "fails" THEN "tool-output-error"
                             ELSE "tool-output-available", round, t))
             ELSE UNCHANGED << stepLog, stream >>
    /\ UNCHANGED << owner, turnLog, turnText, ep, env, cardReq, card, race, offer, pick, store0, sessions, aborted, finishReason,
                    delivered, storeFault, pc, req, resp, probe,
                    selectedModel, modelInfo, store, nextId, round,
                    modelState, toolsInvoked, loopOutcome, thrown >>

\* Where the handler goes on when the loop has ended.
AfterLoop(e) ==
    CASE e = "chat" -> "finish"
      [] e = "external" -> "persist"
      [] OTHER -> "done"

\* The value runSingleMessageCompletion returns.
HelperReturn ==
    [kind |-> "return", status |-> 0, error |-> "", success |-> "na",
     text |-> "answer"]

\* runSingleMessageCompletion rejects (generateText threw).
HelperThrow ==
    [kind |-> "throw", status |-> 0, error |-> "thrown", success |-> "na",
     text |-> "none"]

\* The loop ends normally; the state of its last round is dropped.
\* chat: the text has been streamed to the client.
LoopFinish ==
    /\ pc = "loop" /\ loopOutcome = "none"
    /\ EndsLoop(ep, round, modelState, tools)
    /\ loopOutcome' = "finished"
    /\ pc' = AfterLoop(ep)
    /\ modelState' = "idle"
    /\ tools' = [t \in DOMAIN tools |-> "none"]
    /\ resp' = CASE ep = "chat" -> [resp EXCEPT !.text = "answer"]
                 [] ep = "external" -> resp
                 [] OTHER -> HelperReturn
    /\ finishReason' = IF SomeCalled(tools) THEN "tool-calls" ELSE "stop"
    /\ stepLog' = NoStepLog
    /\ stream' = IF ep = "chat"
                 THEN EmitPart(stream, Part("finish", round, 0))
                 ELSE stream
    /\ delivered' = IF ep = "helper" THEN Delivery(round, round)
                    ELSE delivered
    /\ turnText' =
          IF ep = "external"
          THEN [turnText EXCEPT !.responseText =
                   ExternalResponseText(turnText.deltas,
                                        FullResultText(turnText.deltas))]
          ELSE turnText
    /\ UNCHANGED << owner, turnLog, ep, env, cardReq, card, race, offer, pick, store0, sessions, aborted, storeFault, req,
                    probe, selectedModel, modelInfo, store, nextId, round,
                    toolsInvoked, thrown >>

\* Inference fails in a round (the provider rejects the call, the process
\* loses the connection).
\*   chat: the stream carries an error part and closes
\*   external: the text stream ends early, or rejects (SDK version)
\*   helper: generateText rejects
ModelFails ==
    /\ pc = "loop" /\ modelState = "streaming"
    /\ loopOutcome' = "error"
    /\ modelState' = "idle"
    /\ tools' = [t \in DOMAIN tools |-> "none"]
    /\ \E suppressed \in BOOLEAN :
        CASE ep = "chat" ->
                /\ suppressed
                /\ pc' = "finish"
                /\ UNCHANGED << resp, thrown >>
          [] ep = "external" ->
                IF suppressed
                THEN /\ pc' = "persist"
                     /\ UNCHANGED << resp, thrown >>
                ELSE /\ pc' = "done"
                     /\ thrown' = Thrown("inference", "plain")
                     /\ resp' = ExternalError(500, "thrown")
          [] OTHER ->
                /\ suppressed
                /\ pc' = "done"
                /\ thrown' = Thrown("inference", "plain")
                /\ resp' = HelperThrow
    /\ finishReason' = "error"
    /\ stepLog' = NoStepLog
    /\ stream' = IF ep = "chat"
                 THEN EmitPart(stream, Part("error", round, 0))
                 ELSE stream
    /\ turnText' =
          IF ep = "external"
          THEN [turnText EXCEPT !.responseText =
                   ExternalResponseText(turnText.deltas,
                                        FullResultText(turnText.deltas))]
          ELSE turnText
    /\ UNCHANGED << owner, turnLog, ep, env, cardReq, card, race, offer, pick, store0, sessions, aborted, delivered,
                    storeFault, req, probe, selectedModel, modelInfo, store,
                    nextId, round, toolsInvoked >>

\* ------------------------------------------- chat: onFinish (224 - 261)
\* The messages onFinish receives (originalMessages: messages): the
\* request's messages followed by the response message, or, when the last
\* request message is an assistant message, that message continued.
AllMessages(originalMessages, n) ==
    LET last == originalMessages[Len(originalMessages)]
    IN  IF last.role = "assistant"
        THEN [originalMessages EXCEPT
                 ![Len(originalMessages)].parts = last.parts \o << "ans" >>]
        ELSE originalMessages \o << UIMsg(generateId(n), "assistant", << "ans" >>) >>

\* Variant: the id of the message is saved as it came.
SavedIdVerbatim(id, n) == id

\* id: UUID_REGEX.test(message.id || '') ? message.id : randomUUID()
SavedId(id, n) == IF UUID_REGEX(id) THEN id ELSE randomUUID(n)

\* Variant: only the turn's last message is saved.
MessagesToSaveLastOnly(allMessages, stepLogNonEmpty, n) ==
    LET message == allMessages[Len(allMessages)]
    IN  << StoredMsg(SavedId(message.id, n), message.role, message.parts,
                     "time") >>

\* messagesToSave of onFinish.
MessagesToSave(allMessages, stepLogNonEmpty, n) ==
    [index \in 1..Len(allMessages) |->
        LET message == allMessages[index]
            isLastAssistant == message.role = "assistant"
                               /\ index = Len(allMessages)
            contentToSave == IF isLastAssistant /\ stepLogNonEmpty
                             THEN message.parts \o << "step-log" >>
                             ELSE message.parts
        IN  StoredMsg(SavedId(message.id, n + index), message.role,
                      contentToSave,
                      IF isLastAssistant THEN "time" ELSE "none")]

\* onFinish: if (user && sessionId)
ChatSavesOnFinish(r) == r.user # "none" /\ r.sessionId # "none"

\* onFinish.  The response is already with the client: a returned error is
\* logged, and a throw of the store rejects onFinish only.
ChatOnFinish ==
    /\ ep = "chat" /\ pc = "finish"
    /\ \E sv \in StoreOutcomes :
        LET allMessages == AllMessages(req.messages.list, nextId)
            messagesToSave == MessagesToSave(allMessages, toolsInvoked, nextId)
        IN  /\ storeFault' = (storeFault \/ sv # "ok")
            /\ IF ChatSavesOnFinish(req)
               THEN /\ store' = saveChatMessages(store, req.sessionId,
                                                 messagesToSave, sv)
                    /\ nextId' = nextId + Len(allMessages) + 1
                    /\ thrown' = IF sv = "throws"
                                 THEN Thrown("onFinish", "plain") ELSE thrown
               ELSE /\ sv = "ok"
                    /\ UNCHANGED << store, nextId, thrown >>
    /\ pc' = "done"
    /\ UNCHANGED << owner, turnLog, turnText, ep, env, cardReq, card, race, offer, pick, store0, sessions, aborted, finishReason, stream, stepLog, delivered, req, resp, probe, selectedModel, modelInfo,
                    round, modelState, tools, toolsInvoked, loopOutcome >>

\* ------------------------------------------ external: lines 139 - 185
\* The id of the user message the external endpoint builds:
\* sessionId + '-user-' + Date.now().
ExternalUserMsgId == generateId(92)

\* sessionId = randomUUID() (external, line 144): an id no session has.
FreshSessionId(ss) == IF "new" \in ss THEN "new2" ELSE "new"

\* external, lines 148 - 159: the session records after "ensure session
\* exists": a record is created only for an id the handler generated.
EnsureSession(ss, user, sessionId, isNewSession) ==
    IF user # "none" /\ sessionId \notin ss /\ isNewSession
    THEN ss \cup {sessionId}
    ELSE ss

\* external, lines 153 - 157: db.createChatSession({id: sessionId,
\* user_id: user.id, ...}): the record created belongs to the caller.
CreatedFor(ow, ss, user, sessionId, isNewSession) ==
    IF EnsureSession(ss, user, sessionId, isNewSession) # ss
    THEN [ow EXCEPT ![sessionId] = user]
    ELSE ow

\* Session and history of the external endpoint.  A throw of the store
\* lands in the catch of line 308.
ExternalLoad ==
    /\ ep = "external" /\ pc = "load"
    /\ \E g \in StoreOutcomes :
        LET isNewSession == req.sessionId = "none"
            sessionId == IF isNewSession THEN FreshSessionId(sessions)
                         ELSE req.sessionId
            existingMessages ==
                IF req.user # "none"
                THEN AsUIMessages(getChatMessages(store, sessionId, g))
                ELSE << >>
            messages == existingMessages
                        \o << UIMsg(ExternalUserMsgId, "user", << "q" >>) >>
        IN  /\ storeFault' = (storeFault \/ g # "ok")
            /\ /\ req.user = "none" => g = "ok"
               /\ IF g = "throws"
                  THEN /\ req' = [req EXCEPT !.sessionId = sessionId,
                                             !.isNewSession = isNewSession]
                       /\ thrown' = Thrown("store", "plain")
                       /\ resp' = ExternalError(500, "thrown")
                       /\ pc' = "done"
                  ELSE /\ req' = [req EXCEPT
                                    !.sessionId = sessionId,
                                    !.isNewSession = isNewSession,
                                    !.messages = [shape |-> "array",
                                                  list |-> messages]]
                       /\ pc' = "loop"
                       /\ UNCHANGED << resp, thrown >>
            /\ sessions' = EnsureSession(sessions, req.user, sessionId,
                                         isNewSession)
            /\ owner' = CreatedFor(owner, sessions, req.user, sessionId,
                                   isNewSession)
    /\ UNCHANGED << turnLog, turnText, ep, env, cardReq, card, race, offer, pick, store0, aborted, finishReason, stream, stepLog, delivered, probe, selectedModel, modelInfo, store, nextId,
                    round, modelState, tools, toolsInvoked, loopOutcome >>

\* ------------------------------------------ external: lines 262 - 306
\* external, lines 270 - 278: the list of the user-message save.
ExternalUserList(existingMessages, n) ==
    IdRoleContent(existingMessages
                  \o << StoredMsg(randomUUID(n), "user", << "q" >>, "none") >>)

\* external, lines 281 - 293: the list of the assistant-message save, built
\* from the same existingMessages.
ExternalAssistantList(existingMessages, n) ==
    IdRoleContent(existingMessages
                  \o << StoredMsg(randomUUID(n), "assistant", << "ans" >>, "time") >>)

\* The saves of the external endpoint and its response.  Every store call
\* is awaited inside the try: a throw lands in the catch of line 308.
ExternalPersist ==
    /\ ep = "external" /\ pc = "persist"
    /\ \E g \in StoreOutcomes, sv1 \in StoreOutcomes, sv2 \in StoreOutcomes,
          up \in {"ok", "throws"} :
        LET sid == req.sessionId
            existingMessages == getChatMessages(store, sid, g)
            afterUser == saveChatMessages(store, sid,
                            ExternalUserList(existingMessages, nextId), sv1)
            afterAssistant == saveChatMessages(afterUser, sid,
                            ExternalAssistantList(existingMessages, nextId + 1), sv2)
            catch(st) == /\ store' = st
                         /\ thrown' = Thrown("persist", "plain")
                         /\ resp' = ExternalError(500, "thrown")
                         /\ UNCHANGED delivered
            return(st) == /\ store' = st
                          /\ resp' = ExternalSuccess
                          /\ delivered' = Delivery(1, round)
                          /\ UNCHANGED thrown
        IN  /\ storeFault' = (storeFault \/ g # "ok" \/ sv1 # "ok" \/ sv2 # "ok" \/ up # "ok")
            /\ IF req.user = "none"
               THEN /\ g = "ok" /\ sv1 = "ok" /\ sv2 = "ok" /\ up = "ok"
                    /\ return(store)
                    /\ UNCHANGED nextId
               ELSE /\ nextId' = nextId + 2
                    /\ IF g = "throws"
                       THEN sv1 = "ok" /\ sv2 = "ok" /\ up = "ok" /\ catch(store)
                       ELSE IF sv1 = "throws"
                       THEN sv2 = "ok" /\ up = "ok" /\ catch(store)
                       ELSE IF sv2 = "throws"
                       THEN up = "ok" /\ catch(afterUser)
                       ELSE IF up = "throws"
                       THEN catch(afterAssistant)
                       ELSE return(afterAssistant)
    /\ pc' = "done"
    /\ UNCHANGED << owner, turnLog, turnText, ep, env, cardReq, card, race, offer, pick, store0, sessions, aborted, finishReason,
                    stream, stepLog, req, probe, selectedModel, modelInfo,
                    round, modelState, tools, toolsInvoked, loopOutcome >>

Next ==
    \/ ChatReceive
    \/ ChatResolve
    \/ ExternalReceive
    \/ ExternalResolve
    \/ HelperResolve
    \/ ChatSaveUser
    \/ StartRound
    \/ \E t \in ToolIds : ModelCallsTool(t)
    \/ ModelEndsRound
    \/ \E t \in ToolIds : ToolResolves(t)
    \/ LoopFinish
    \/ ModelFails
    \/ ChatOnFinish
    \/ ExternalLoad
    \/ ExternalPersist

Spec == Init /\ [][Next]_vars

\* ------------------------------------------- sessions and follow-ups
\* The caller of the external endpoint sends another request after a
\* successful one.  What the store holds stays; the rest is the state of
\* a new request.
NextRequest ==
    /\ ep = "external" /\ pc = "done"
    /\ resp = ExternalSuccess
    /\ \A sid \in SessionIds : store0[sid] = << >>
    /\ \E sid \in SessionIds : store[sid] # << >>
    /\ pc' = "idle"
    /\ req' = NoRequest
    /\ resp' = NoResponse
    /\ store0' = store
    /\ probe' = "none"
    /\ selectedModel' = "none"
    /\ modelInfo' = "none"
    /\ round' = 0
    /\ toolsInvoked' = FALSE
    /\ loopOutcome' = "none"
    /\ finishReason' = "none"
    /\ delivered' = NoDelivery
    /\ turnText' = NoText
    /\ UNCHANGED << owner, turnLog, ep, env, cardReq, card, race, offer, pick, sessions,
                    store, storeFault, nextId, modelState, tools, thrown,
                    aborted, stream, stepLog >>

\* Requests in hosted mode with an OpenAI key on an empty store, where the
\* session "s1" the client names has a record or has none.
SessionInit ==
    /\ ep \in {"chat", "external"}
    /\ env = [selfHosted |-> FALSE, hasOpenAIKey |-> TRUE]
    /\ pc = "idle"
    /\ req = NoRequest
    /\ resp = NoResponse
    /\ probe = "none"
    /\ selectedModel = "none"
    /\ modelInfo = "none"
    /\ store = [s \in SessionIds |-> << >>]
    /\ store0 = store
    /\ storeFault = FALSE
    /\ nextId = 3
    /\ round = 0
    /\ modelState = "idle"
    /\ tools = [t \in ToolIds |-> "none"]
    /\ toolsInvoked = FALSE
    /\ loopOutcome = "none"
    /\ thrown = NoThrow
    /\ cardReq = NoCardRequest
    /\ card = NoCard
    /\ aborted = FALSE
    /\ finishReason = "none"
    /\ stream = NoStream
    /\ stepLog = NoStepLog
    /\ delivered = NoDelivery
    /\ sessions \in SUBSET {"s1"}
    /\ race = NoRace
    /\ offer = NoOffer
    /\ pick = NoPick
    /\ turnText = NoText
    /\ turnLog = NoTurnLog
    /\ owner = FirstOwners(sessions, "u1")

SessionNext ==
    \/ ChatReceive
    \/ ChatResolve
    \/ ExternalReceive
    \/ ExternalResolve
    \/ ChatSaveUser
    \/ StartRound
    \/ \E t \in ToolIds : ModelCallsTool(t)
    \/ ModelEndsRound
    \/ \E t \in ToolIds : ToolResolves(t)
    \/ LoopFinish
    \/ ModelFails
    \/ ChatOnFinish
    \/ ExternalLoad
    \/ ExternalPersist
    \/ NextRequest

SessionSpec == SessionInit /\ [][SessionNext]_vars

\* ------------------------------------------- whose session it is
\* Requests in hosted mode with an OpenAI key, where the session "s1" the
\* client can name holds an earlier turn and belongs to the caller or to
\* another user.  The model answers without calling tools.
OwnerInit ==
    /\ ep \in {"chat", "external"}
    /\ env = [selfHosted |-> FALSE, hasOpenAIKey |-> TRUE]
    /\ pc = "idle"
    /\ req = NoRequest
    /\ resp = NoResponse
    /\ probe = "none"
    /\ selectedModel = "none"
    /\ modelInfo = "none"
    /\ store \in { [s \in SessionIds |-> IF s = "s1" THEN h ELSE << >>] :
                      h \in InitialStores \ { << >> } }
    /\ store0 = store
    /\ storeFault = FALSE
    /\ nextId = 3
    /\ round = 0
    /\ modelState = "idle"
    /\ tools = [t \in ToolIds |-> "none"]
    /\ toolsInvoked = FALSE
    /\ loopOutcome = "none"
    /\ thrown = NoThrow
    /\ cardReq = NoCardRequest
    /\ card = NoCard
    /\ aborted = FALSE
    /\ finishReason = "none"
    /\ stream = NoStream
    /\ stepLog = NoStepLog
    /\ delivered = NoDelivery
    /\ sessions = {"s1"}
    /\ race = NoRace
    /\ offer = NoOffer
    /\ pick = NoPick
    /\ turnText = NoText
    /\ turnLog = NoTurnLog
    /\ \E u \in Users : owner = FirstOwners(sessions, u)

OwnerNext ==
    \/ ChatReceive
    \/ ChatResolve
    \/ ExternalReceive
    \/ ExternalResolve
    \/ ChatSaveUser
    \/ StartRound
    \/ ModelEndsRound
    \/ LoopFinish
    \/ ChatOnFinish
    \/ ExternalLoad
    \/ ExternalPersist

OwnerSpec == OwnerInit /\ [][OwnerNext]_vars

\* --------------------------------------- what a request is run with
\* The tools of lib/tools the handlers name: createChart, and the rest.
financeTools ==
    {"financeSearch", "webSearch", "secSearch", "economicsSearch",
     "codeExecution", "createChart"}

\* const { createChart, ...toolsForRequest } = financeTools
toolsForRequest == financeTools \ {"createChart"}

\* Values of the body field responseFormat and of the header
\* x-response-format ("missing": not sent).
ResponseFormats == {"missing", "chat", "cards", "finance-gpt-copy", "other"}

\* chat, line 15.
useCardsFormat(responseFormat, header) ==
    responseFormat = "cards" \/ header = "cards"

\* chat, line 200: one of the two prompts of lines 127 and 146.
systemPrompt(cardsFormat) ==
    IF cardsFormat THEN "systemPromptCards" ELSE "systemPromptChat"

\* Variant: the cards format is offered the chart tool.
CallOptionsChartForCards(e, responseFormat, header) ==
    [format |-> responseFormat, header |-> header,
     prompt |-> systemPrompt(useCardsFormat(responseFormat, header)),
     tools |-> IF useCardsFormat(responseFormat, header)
               THEN financeTools ELSE toolsForRequest,
     stopWhen |-> StepCap(e)]

\* The options `system`, `tools` and `stopWhen` of the streamText / generateText call
\* of an entry point.
\*   chat: lines 204 - 218;  external: lines 236 - 244;  helper: 63 - 72
CallOptions(e, responseFormat, header) ==
    CASE e = "chat" ->
            [format |-> responseFormat, header |-> header,
             prompt |-> systemPrompt(useCardsFormat(responseFormat, header)),
             tools |-> toolsForRequest,
             stopWhen |-> StepCap(e)]
      [] e = "external" ->
            [format |-> responseFormat, header |-> header,
             prompt |-> "systemPromptExternal",
             tools |-> financeTools,
             stopWhen |-> StepCap(e)]
      [] OTHER ->
            [format |-> responseFormat, header |-> header,
             prompt |-> "systemPromptHelper",
             tools |-> toolsForRequest,
             stopWhen |-> StepCap(e)]

\* A request with a response format in its body and in its header.
OfferInit ==
    /\ ep \in EntryPoints
    /\ env = [selfHosted |-> FALSE, hasOpenAIKey |-> TRUE]
    /\ pc = "idle"
    /\ req = NoRequest
    /\ resp = NoResponse
    /\ probe = "none"
    /\ selectedModel = "none"
    /\ modelInfo = "none"
    /\ store = [s \in SessionIds |-> << >>]
    /\ store0 = store
    /\ storeFault = FALSE
    /\ nextId = 3
    /\ round = 0
    /\ modelState = "idle"
    /\ tools = [t \in ToolIds |-> "none"]
    /\ toolsInvoked = FALSE
    /\ loopOutcome = "none"
    /\ thrown = NoThrow
    /\ cardReq = NoCardRequest
    /\ card = NoCard
    /\ aborted = FALSE
    /\ finishReason = "none"
    /\ stream = NoStream
    /\ stepLog = NoStepLog
    /\ delivered = NoDelivery
    /\ sessions = {"s1"}
    /\ race = NoRace
    /\ offer \in { [NoOffer EXCEPT !.format = f, !.header = h] :
                      f \in ResponseFormats, h \in ResponseFormats }
    /\ pick = NoPick
    /\ turnText = NoText
    /\ turnLog = NoTurnLog
    /\ owner = FirstOwners(sessions, "u1")

\* The handler computes the options of its model call.
Configure ==
    /\ pc = "idle" /\ offer.prompt = "none"
    /\ offer' = CallOptions(ep, offer.format, offer.header)
    /\ pc' = "done"
    /\ UNCHANGED << owner, turnLog, turnText, ep, env, req, resp, probe, selectedModel, modelInfo,
                    store, store0, storeFault, nextId, round, modelState,
                    tools, toolsInvoked, loopOutcome, thrown, cardReq, card,
                    aborted, finishReason, stream, stepLog, delivered,
                    sessions, race, pick >>

OfferNext == Configure

OfferSpec == OfferInit /\ [][OfferNext]_vars

\* ------------------------------------- two chat requests on one session
\* Two chat requests of one signed-in user on session "s1" run side by
\* side.  Each is a separate invocation of POST: it has its own messages,
\* its own existingMessages and its own position; the store is shared and
\* no line of the handler takes a lock.
RaceIds == {1, 2}

\* The last message of each request: a new user question.
RaceQuestion(r) ==
    UIMsg(generateId(92 + r), "user", << IF r = 1 THEN "q1" ELSE "q2" >>)

\* A request of the pair: position, the messages it carries, and the
\* existingMessages it has read.
RaceRequest(position, messages, existingMessages) ==
    [pc |-> position, messages |-> messages,
     existingMessages |-> existingMessages]

\* A stored list by role and content.
RoleContents(msgs) ==
    { << msgs[i].role, msgs[i].content >> : i \in 1..Len(msgs) }

\* The pair after a save of request r: when the save went through, the
\* list is the one written last, r is the last writer, and the messages
\* of the list count as persisted by r.
Written(rc, r, list, outcome) ==
    IF outcome = "ok"
    THEN [rc EXCEPT !.last = list, !.writer = r,
                    !.persisted[r] = @ \cup RoleContents(list)]
    ELSE rc

RaceInit ==
    /\ ep = "chat"
    /\ env = [selfHosted |-> FALSE, hasOpenAIKey |-> TRUE]
    /\ pc = "loop"
    /\ req = NoRequest
    /\ resp = NoResponse
    /\ probe = "none"
    /\ selectedModel = "openai"
    /\ modelInfo = "openai-valyu"
    /\ \E h \in InitialStores :
          /\ store = [s \in SessionIds |-> IF s = "s1" THEN h ELSE << >>]
          /\ race \in
               { [reqs |-> [r \in RaceIds |->
                              RaceRequest("read",
                                  (IF r \in withHistory
                                   THEN AsUIMessages(h) ELSE << >>)
                                  \o << RaceQuestion(r) >>, << >>)],
                  last |-> h, writer |-> 0,
                  persisted |-> [r \in RaceIds |-> {}]] :
                 withHistory \in SUBSET RaceIds }
    /\ store0 = store
    /\ storeFault = FALSE
    /\ nextId = 3
    /\ round = 0
    /\ modelState = "idle"
    /\ tools = [t \in ToolIds |-> "none"]
    /\ toolsInvoked = FALSE
    /\ loopOutcome = "none"
    /\ thrown = NoThrow
    /\ cardReq = NoCardRequest
    /\ card = NoCard
    /\ aborted = FALSE
    /\ finishReason = "none"
    /\ stream = NoStream
    /\ stepLog = NoStepLog
    /\ delivered = NoDelivery
    /\ sessions = {"s1"}
    /\ offer = NoOffer
    /\ pick = NoPick
    /\ turnText = NoText
    /\ turnLog = NoTurnLog
    /\ owner = FirstOwners(sessions, "u1")

\* chat, line 107 of request r: db.getChatMessages(sessionId).  A throw
\* ends the request in the catch of line 269.
RaceRead(r) ==
    /\ race.reqs[r].pc = "read"
    /\ \E g \in StoreOutcomes :
          race' = [race EXCEPT
                     !.reqs[r].pc = IF g = "throws" THEN "done" ELSE "save",
                     !.reqs[r].existingMessages =
                         getChatMessages(store, "s1", g)]
    /\ UNCHANGED << owner, turnLog, turnText, ep, env, pc, req, resp, probe, selectedModel, modelInfo,
                    store, store0, storeFault, nextId, round, modelState,
                    tools, toolsInvoked, loopOutcome, thrown, cardReq, card,
                    aborted, finishReason, stream, stepLog, delivered,
                    sessions, offer, pick >>

\* chat, lines 109 - 117 of request r: db.saveChatMessages with the list
\* built from the existingMessages the request read.
RaceSaveUser(r) ==
    /\ race.reqs[r].pc = "save"
    /\ \E sv \in StoreOutcomes :
        LET me == race.reqs[r]
            list == ChatUserTurnList(me.existingMessages,
                                     me.messages[Len(me.messages)], nextId)
        IN  /\ store' = saveChatMessages(store, "s1", list, sv)
            /\ race' = [Written(race, r, list, sv) EXCEPT
                          !.reqs[r].pc = IF sv = "throws" THEN "done"
                                         ELSE "stream"]
    /\ nextId' = nextId + 1
    /\ UNCHANGED << owner, turnLog, turnText, ep, env, pc, req, resp, probe, selectedModel, modelInfo,
                    store0, storeFault, round, modelState, tools,
                    toolsInvoked, loopOutcome, thrown, cardReq, card,
                    aborted, finishReason, stream, stepLog, delivered,
                    sessions, offer, pick >>

\* chat, lines 224 - 260 of request r: onFinish saves messagesToSave, the
\* messages the request carried and its assistant answer.
RaceOnFinish(r) ==
    /\ race.reqs[r].pc = "stream"
    /\ \E sv \in StoreOutcomes, stepLogNonEmpty \in BOOLEAN :
        LET allMessages == AllMessages(race.reqs[r].messages, nextId)
            messagesToSave == MessagesToSave(allMessages, stepLogNonEmpty,
                                             nextId)
        IN  /\ store' = saveChatMessages(store, "s1", messagesToSave, sv)
            /\ race' = [Written(race, r, messagesToSave, sv) EXCEPT
                          !.reqs[r].pc = "done"]
            /\ nextId' = nextId + Len(allMessages) + 1
    /\ UNCHANGED << owner, turnLog, turnText, ep, env, pc, req, resp, probe, selectedModel, modelInfo,
                    store0, storeFault, round, modelState, tools,
                    toolsInvoked, loopOutcome, thrown, cardReq, card,
                    aborted, finishReason, stream, stepLog, delivered,
                    sessions, offer, pick >>

RaceNext ==
    \/ \E r \in RaceIds : RaceRead(r)
    \/ \E r \in RaceIds : RaceSaveUser(r)
    \/ \E r \in RaceIds : RaceOnFinish(r)

RaceSpec == RaceInit /\ [][RaceNext]_vars

\* ------------------------------------------- the choice of a local model
\* Model names are sequences of name fragments, so that
\* String.prototype.includes is a test on contiguous fragments:
\* 'llama3.2' is << "llama3", ".2" >> and holds 'llama3'.
includes(name, fragment) ==
    \E i \in 1..(Len(name) - Len(fragment) + 1) :
        SubSeq(name, i, i + Len(fragment) - 1) = fragment

\* The names a local provider may list: llama3.2, llama3:8b, mistral,
\* deepseek-r1, DeepSeek-R1, nomic-embed-text, text-embedding.
ModelNames ==
    { << "llama3", ".2" >>, << "llama3", ":8b" >>, << "mistral" >>,
      << "deepseek-r1" >>, << "DeepSeek-R1" >>,
      << "nomic", "-", "embed", "-text" >>, << "text-", "embed", "ding" >> }

\* String.prototype.toLowerCase, fragment by fragment.
toLowerCase(name) ==
    [i \in DOMAIN name |->
        IF name[i] = "DeepSeek-R1" THEN "deepseek-r1" ELSE name[i]]

\* thinkingModels: route.ts line 45.
thinkingModels ==
    { << "deepseek-r1" >>, << "deepseek-v3" >>, << "deepseek-v3", ".1" >>,
      << "qwen3" >>, << "qwq" >>, << "phi4-reasoning" >>,
      << "phi-4-reasoning" >>, << "cogito" >> }

\* thinkingModels.some(t => name.toLowerCase().includes(t.toLowerCase()))
MatchesThinkingModel(selectedModelName) ==
    \E t \in thinkingModels :
        includes(toLowerCase(selectedModelName), toLowerCase(t))

\* supportsThinking after a local model is chosen: the chat endpoint
\* assigns it (route.ts line 77); the external endpoint declares it false
\* (external route.ts line 76) and never assigns it.
supportsThinking(e, selectedModelName) ==
    IF e = "chat" THEN MatchesThinkingModel(selectedModelName) ELSE FALSE

\* providerName: isLMStudio ? 'LM Studio' : 'Ollama'
providerName(provider) == IF provider = "lmstudio" THEN "LM Studio" ELSE "Ollama"

\* Variant: the label of the local path does not name the provider.
LocalModelInfoUnnamed(e, provider, selectedModelName, thinking) ==
    << "Local", " (" >> \o selectedModelName \o << ")", " - Self-Hosted" >>

\* modelInfo of the local path: route.ts line 81, external route.ts
\* line 106.
LocalModelInfo(e, provider, selectedModelName, thinking) ==
    << providerName(provider), " (" >> \o selectedModelName \o << ")" >>
    \o (IF e = "chat" /\ thinking THEN << " [Reasoning]" >> ELSE << >>)
    \o << " - Self-Hosted" >>

\* modelInfo after a failed probe: route.ts line 85, external line 120.
FallbackModelInfo(e, hasOpenAIKey) ==
    IF e = "external" THEN << "OpenAI", " (gpt-5.2)", " - Fallback" >>
    ELSE IF hasOpenAIKey
    THEN << "OpenAI", " (gpt-5.2)", " - Self-Hosted Fallback" >>
    ELSE << "Vercel AI Gateway", " (gpt-5.2)", " - Self-Hosted Fallback" >>

\* modelInfo without a probe: route.ts line 89, external line 134.
HostedModelInfo(e, hasOpenAIKey) ==
    IF e = "external" THEN << "OpenAI", " (gpt-5.2)" >>
    ELSE IF hasOpenAIKey
    THEN << "OpenAI", " (gpt-5.2)", " - Valyu Mode" >>
    ELSE << "Vercel AI Gateway", " (gpt-5.2)", " - Valyu Mode" >>

\* isUsingLocalProvider: route.ts line 94, external route.ts line 227.
isUsingLocalProvider(isSelfHosted, localEnabled, label) ==
    /\ isSelfHosted /\ localEnabled
    /\ \/ includes(label, << "Ollama" >>)
       \/ includes(label, << "LM Studio" >>)

\* providerOptions.openai.think of the model call: the routes pass
\* {think: supportsThinking} when isUsingLocalProvider (route.ts lines 95 -
\* 99, external lines 228 - 232); generateText of the helper is given no
\* providerOptions (part_006 lines 63 - 72).
ThinkOption(e, usingLocal, thinking) ==
    IF e = "helper" \/ ~usingLocal THEN "absent"
    ELSE IF thinking THEN "true" ELSE "false"

\* localEnabled of the request, by entry point.
LocalEnabled(e, r) ==
    CASE e = "chat" -> r.ollamaEnabledHeader
      [] e = "external" -> ~r.disableLocal /\ r.ollamaEnabledHeader
      [] OTHER -> ~r.disableLocal

\* Whether the entry point probes the local provider.
Probes(e, isSelfHosted, r) ==
    CASE e = "chat" -> ChatProbes(isSelfHosted, LocalEnabled(e, r))
      [] e = "external" ->
            ExternalProbes(isSelfHosted, LocalEnabled(e, r), r.model)
      [] OTHER -> HelperProbes(r.disableLocal, isSelfHosted)

\* The remote model of the entry point ("none": external without a key).
RemoteModel(e, hasOpenAIKey) ==
    CASE e = "chat" -> ChatRemoteModel(hasOpenAIKey)
      [] e = "external" -> ExternalRemoteModel(hasOpenAIKey)
      [] OTHER -> HelperRemoteModel

\* The pick after resolution has taken a remote path with the label given.
RemotePick(pk, e, isSelfHosted, r, hasOpenAIKey, path, label) ==
    IF RemoteModel(e, hasOpenAIKey) = "none"
    THEN [pk EXCEPT !.outcome = "error"]
    ELSE LET modelInfo1 == IF e = "helper" THEN << >> ELSE label
             usingLocal == isUsingLocalProvider(isSelfHosted,
                               LocalEnabled(e, r), modelInfo1)
         IN  [pk EXCEPT !.outcome = path, !.label = modelInfo1,
                        !.usingLocal = usingLocal,
                        !.think = ThinkOption(e, usingLocal, FALSE)]

\* preferredModels: route.ts line 46 and part_006 line 32 (chat, helper),
\* external route.ts line 99.
PreferredModels(e) ==
    IF e = "external"
    THEN << << "llama3", ".2" >>, << "llama3" >>, << "qwen2.5" >>,
            << "codestral" >> >>
    ELSE << << "deepseek-r1" >>, << "qwen3" >>, << "phi4-reasoning" >>,
            << "cogito" >>, << "llama3", ".1" >>, << "gemma3", ":4b" >>,
            << "gemma3" >>, << "llama3", ".2" >>, << "llama3" >>,
            << "qwen2.5" >>, << "codestral" >> >>

\* The filter of the LM Studio list: !includes('embed') &&
\* !includes('embedding') && !includes('nomic').
KeptByFilter(name) ==
    /\ ~includes(name, << "embed" >>)
    /\ ~includes(name, << "embed", "ding" >>)
    /\ ~includes(name, << "nomic" >>)

\* `models`: the LM Studio list is filtered, the Ollama list is taken as
\* it is (data.models || []).
Models(provider, data) ==
    IF provider = "lmstudio" THEN SelectSeq(data, KeptByFilter) ELSE data

\* models.find(m => m.name.includes(p)): the first listed model holding
\* p, << >> when there is none.
FindModel(models, p) ==
    IF \E i \in DOMAIN models : includes(models[i], p)
    THEN models[CHOOSE i \in DOMAIN models :
                    /\ includes(models[i], p)
                    /\ \A j \in 1..(i - 1) : ~includes(models[j], p)]
    ELSE << >>

\* Variant: the first listed model that holds any preferred fragment.
PreferredMatchFirstListed(models, preferredModels) ==
    IF \E i \in DOMAIN models, k \in DOMAIN preferredModels :
            includes(models[i], preferredModels[k])
    THEN models[CHOOSE i \in DOMAIN models :
            /\ \E k \in DOMAIN preferredModels :
                  includes(models[i], preferredModels[k])
            /\ \A j \in 1..(i - 1) : \A k \in DOMAIN preferredModels :
                  ~includes(models[j], preferredModels[k])]
    ELSE << >>

\* preferredModels.map(p => models.find(...)).find(Boolean)
PreferredMatch(models, preferredModels) ==
    LET found == [k \in DOMAIN preferredModels |->
                     FindModel(models, preferredModels[k])]
    IN  IF \E k \in DOMAIN found : found[k] # << >>
        THEN found[CHOOSE k \in DOMAIN found :
                      /\ found[k] # << >>
                      /\ \A j \in 1..(k - 1) : found[j] = << >>]
        ELSE << >>

\* selectedModelName of the routes: route.ts lines 69 - 75, external
\* route.ts lines 95 - 102.  userPreferredModel is << >> when the header
\* x-ollama-model is absent or empty.
SelectedModelName(models, userPreferredModel, preferredModels) ==
    IF /\ userPreferredModel # << >>
       /\ \E i \in DOMAIN models : models[i] = userPreferredModel
    THEN userPreferredModel
    ELSE LET match == PreferredMatch(models, preferredModels)
         IN  IF match # << >> THEN match ELSE models[1]

\* selectedModelName of the helper: part_006 lines 46 - 50 (no requested
\* model is looked at).
HelperSelectedModelName(models, preferredModels) ==
    LET match == PreferredMatch(models, preferredModels)
    IN  IF match # << >> THEN match ELSE models[1]

\* The lists a probe may answer with: one to MaxListed different names.
RECURSIVE ListsOf(_)
ListsOf(n) ==
    IF n = 0 THEN { << >> }
    ELSE LET shorter == ListsOf(n - 1)
         IN  shorter \cup
             { Append(l, m) : l \in { s \in shorter : Len(s) = n - 1 },
                              m \in ModelNames }

ProbedLists ==
    { l \in ListsOf(MaxListed) :
        /\ l # << >>
        /\ \A i, j \in DOMAIN l : i # j => l[i] # l[j] }

\* A probe of a local provider has answered with a non-empty list.  The
\* helper probes Ollama only and reads no header.
PickInit ==
    /\ ep \in EntryPoints
    /\ env = [selfHosted |-> TRUE, hasOpenAIKey |-> TRUE]
    /\ pc = "resolve"
    /\ req = [NoRequest EXCEPT !.model = "ollama"]
    /\ resp = NoResponse
    /\ probe = "ok"
    /\ selectedModel = "none"
    /\ modelInfo = "none"
    /\ store = [s \in SessionIds |-> << >>]
    /\ store0 = store
    /\ storeFault = FALSE
    /\ nextId = 3
    /\ round = 0
    /\ modelState = "idle"
    /\ tools = [t \in ToolIds |-> "none"]
    /\ toolsInvoked = FALSE
    /\ loopOutcome = "none"
    /\ thrown = NoThrow
    /\ cardReq = NoCardRequest
    /\ card = NoCard
    /\ aborted = FALSE
    /\ finishReason = "none"
    /\ stream = NoStream
    /\ stepLog = NoStepLog
    /\ delivered = NoDelivery
    /\ sessions = {"s1"}
    /\ race = NoRace
    /\ offer = NoOffer
    /\ turnText = NoText
    /\ turnLog = NoTurnLog
    /\ owner = FirstOwners(sessions, "u1")
    /\ pick \in
         { [NoPick EXCEPT !.provider = p, !.listed = l, !.requested = u] :
             p \in IF ep = "helper" THEN {"ollama"}
                   ELSE {"ollama", "lmstudio"},
             l \in ProbedLists,
             u \in IF ep = "helper" THEN { << >> }
                   ELSE ModelNames \cup { << >>, << "phi4" >> } }

\* The handler chooses among the listed models, labels the choice and
\* computes the options of its model call; an empty `models` throws and
\* resolution goes on in the catch of the probe.
ChooseLocalModel ==
    /\ pc = "resolve" /\ pick.outcome = "none"
    /\ probe = "ok" /\ Probes(ep, env.selfHosted, req)
    /\ LET models == Models(pick.provider, pick.listed)
           name == IF ep = "helper"
                   THEN HelperSelectedModelName(models, PreferredModels(ep))
                   ELSE SelectedModelName(models, pick.requested,
                                          PreferredModels(ep))
           thinking == supportsThinking(ep, name)
           label == IF ep = "helper" THEN << >>
                    ELSE LocalModelInfo(ep, pick.provider, name, thinking)
           usingLocal == isUsingLocalProvider(env.selfHosted,
                             LocalEnabled(ep, req), label)
       IN  IF Len(models) = 0
           THEN /\ pick' = RemotePick(pick, ep, env.selfHosted, req,
                               env.hasOpenAIKey, "fallback",
                               FallbackModelInfo(ep, env.hasOpenAIKey))
                /\ selectedModel' = RemoteModel(ep, env.hasOpenAIKey)
           ELSE /\ pick' = [pick EXCEPT
                              !.outcome = "local", !.chosen = name,
                              !.label = label, !.usingLocal = usingLocal,
                              !.think = ThinkOption(ep, usingLocal, thinking)]
                /\ selectedModel' = "local"
    /\ pc' = "done"
    /\ UNCHANGED << owner, ep, env, req, resp, probe, modelInfo, store, store0,
                    storeFault, nextId, round, modelState, tools,
                    toolsInvoked, loopOutcome, thrown, cardReq, card,
                    aborted, finishReason, stream, stepLog, delivered,
                    sessions, race, offer, turnText, turnLog >>

PickNext == ChooseLocalModel

PickSpec == PickInit /\ [][PickNext]_vars

\* ------------------------------------------- the label of the resolution
\* Resolution takes a remote path: no probe is made (hosted path), or the
\* probe has failed (fallback path).
ChooseRemoteModel ==
    /\ pc = "resolve" /\ pick.outcome = "none"
    /\ ~(probe = "ok" /\ Probes(ep, env.selfHosted, req))
    /\ LET probes == Probes(ep, env.selfHosted, req)
       IN  pick' = RemotePick(pick, ep, env.selfHosted, req,
                       env.hasOpenAIKey,
                       IF probes THEN "fallback" ELSE "hosted",
                       IF probes
                       THEN FallbackModelInfo(ep, env.hasOpenAIKey)
                       ELSE HostedModelInfo(ep, env.hasOpenAIKey))
    /\ selectedModel' = RemoteModel(ep, env.hasOpenAIKey)
    /\ pc' = "done"
    /\ UNCHANGED << owner, ep, env, req, resp, probe, modelInfo, store, store0,
                    storeFault, nextId, round, modelState, tools,
                    toolsInvoked, loopOutcome, thrown, cardReq, card,
                    aborted, finishReason, stream, stepLog, delivered,
                    sessions, race, offer, turnText, turnLog >>

\* A request at provider resolution, in either mode, with or without a
\* key, with local inference on or off; a probe that is made answers
\* with one listed model, or fails.
LabelInit ==
    /\ ep \in EntryPoints
    /\ env \in [selfHosted : BOOLEAN, hasOpenAIKey : BOOLEAN]
    /\ pc = "resolve"
    /\ req \in
         { [NoRequest EXCEPT !.ollamaEnabledHeader = h, !.disableLocal = d,
                             !.model = m] :
             h \in IF ep = "helper" THEN {TRUE} ELSE BOOLEAN,
             d \in IF ep = "chat" THEN {FALSE} ELSE BOOLEAN,
             m \in IF ep = "external" THEN {"openai", "ollama"}
                   ELSE {"openai"} }
    /\ resp = NoResponse
    /\ probe \in IF Probes(ep, env.selfHosted, req)
                 THEN {"ok", "timeout"} ELSE {"none"}
    /\ selectedModel = "none"
    /\ modelInfo = "none"
    /\ store = [s \in SessionIds |-> << >>]
    /\ store0 = store
    /\ storeFault = FALSE
    /\ nextId = 3
    /\ round = 0
    /\ modelState = "idle"
    /\ tools = [t \in ToolIds |-> "none"]
    /\ toolsInvoked = FALSE
    /\ loopOutcome = "none"
    /\ thrown = NoThrow
    /\ cardReq = NoCardRequest
    /\ card = NoCard
    /\ aborted = FALSE
    /\ finishReason = "none"
    /\ stream = NoStream
    /\ stepLog = NoStepLog
    /\ delivered = NoDelivery
    /\ sessions = {"s1"}
    /\ race = NoRace
    /\ offer = NoOffer
    /\ turnText = NoText
    /\ turnLog = NoTurnLog
    /\ owner = FirstOwners(sessions, "u1")
    /\ pick \in
         IF probe = "ok"
         THEN { [NoPick EXCEPT !.provider = p, !.listed = << n >>] :
                  p \in IF ep = "helper" THEN {"ollama"}
                        ELSE {"ollama", "lmstudio"},
                  n \in ModelNames }
         ELSE { [NoPick EXCEPT !.provider = "ollama"] }

LabelNext == ChooseLocalModel \/ ChooseRemoteModel

LabelSpec == LabelInit /\ [][LabelNext]_vars

\* ------------------------------------------------- one turn, wide rounds
\* The request's abort signal fires: the timeout of the helper (part_006
\* lines 59 - 60), or the client of a route leaves (req.signal).
\*   helper: generateText holds controller.signal (line 71); it rejects,
\*           and the finally of line 74 runs
\*   chat, external: streamText is given no abortSignal (route.ts lines
\*           204 - 218, external route.ts lines 236 - 244), and no line of
\*           the handlers reads req.signal
\*   external: the handler itself reads the text stream to its end
\*           (lines 246 - 258): the loop does not learn of the signal
\*   chat: the client was the reader of the response stream; the loop
\*           goes on, or it stops with the cancelled stream and onFinish
\*           is not called; tool executions get no signal either way
AbortFires ==
    /\ pc = "loop" /\ loopOutcome = "none"
    /\ ~aborted
    /\ aborted' = TRUE
    /\ \E stops \in BOOLEAN :
        CASE ep = "helper" ->
                /\ stops
                /\ loopOutcome' = "error"
                /\ finishReason' = "error"
                /\ modelState' = "idle"
                /\ tools' = [t \in DOMAIN tools |-> "none"]
                /\ thrown' = Thrown("inference", "plain")
                /\ resp' = HelperThrow
                /\ pc' = "done"
          [] ep = "chat" /\ stops ->
                /\ loopOutcome' = "error"
                /\ finishReason' = "error"
                /\ modelState' = "idle"
                /\ pc' = "done"
                /\ UNCHANGED << tools, thrown, resp >>
          [] OTHER ->
                /\ ~stops
                /\ UNCHANGED << loopOutcome, finishReason, modelState,
                                tools, thrown, resp, pc >>
    /\ UNCHANGED << owner, turnLog, turnText, ep, env, cardReq, card, race, offer, pick, store0, sessions, stream, stepLog,
                    delivered, storeFault, req, probe, selectedModel,
                    modelInfo, store, nextId, round, toolsInvoked >>

\* The request of a turn that has reached the loop, by entry point: a
\* first user message "q" of a signed-in user in session "s1" (chat,
\* external), a prompt (helper).
TurnRequest(e) ==
    CASE e = "chat" ->
            [NoRequest EXCEPT
                !.body = "object",
                !.messages = [shape |-> "array",
                              list |-> << UIMsg(generateId(90), "user",
                                                << "q" >>) >>],
                !.sessionId = "s1", !.valyuAccessToken = TRUE,
                !.user = "u1", !.ollamaEnabledHeader = FALSE]
      [] e = "external" ->
            [NoRequest EXCEPT
                !.body = "object",
                !.messages = [shape |-> "array",
                              list |-> << UIMsg(ExternalUserMsgId, "user",
                                                << "q" >>) >>],
                !.message = "text", !.sessionId = "s1", !.user = "u1",
                !.ollamaEnabledHeader = FALSE]
      [] OTHER ->
            [NoRequest EXCEPT !.body = "call", !.message = "text"]

\* A request at the start of its loop, in hosted mode with an OpenAI key
\* and an empty store, with room for n tool calls in a round.
TurnEntry(n) ==
    /\ ep \in EntryPoints
    /\ env = [selfHosted |-> FALSE, hasOpenAIKey |-> TRUE]
    /\ pc = "loop"
    /\ req = TurnRequest(ep)
    /\ resp = IF ep = "chat" THEN StreamResponse ELSE NoResponse
    /\ probe = "none"
    /\ selectedModel = "openai"
    /\ modelInfo = CASE ep = "chat" -> "openai-valyu"
                     [] ep = "external" -> "openai"
                     [] OTHER -> "none"
    /\ store0 = [s \in SessionIds |-> << >>]
    /\ store = IF ep = "chat"
               THEN [store0 EXCEPT !["s1"] =
                        << StoredMsg(randomUUID(3), "user", << "q" >>,
                                     "none") >>]
               ELSE store0
    /\ storeFault = FALSE
    /\ nextId = IF ep = "chat" THEN 4 ELSE 3
    /\ round = 0
    /\ modelState = "idle"
    /\ tools = [t \in 1..n |-> "none"]
    /\ toolsInvoked = FALSE
    /\ loopOutcome = "none"
    /\ thrown = NoThrow
    /\ cardReq = NoCardRequest
    /\ card = NoCard
    /\ aborted = FALSE
    /\ finishReason = "none"
    /\ stream = NoStream
    /\ stepLog = NoStepLog
    /\ delivered = NoDelivery
    /\ sessions = {"s1"}
    /\ race = NoRace
    /\ offer = NoOffer
    /\ pick = NoPick
    /\ turnText = NoText
    /\ turnLog = NoTurnLog
    /\ owner = FirstOwners(sessions, "u1")

TurnInit == TurnEntry(MaxFanOut)

TurnNext ==
    \/ StartRound
    \/ \E t \in DOMAIN tools : ModelCallsTool(t)
    \/ ModelEndsRound
    \/ \E t \in DOMAIN tools : ToolResolves(t)
    \/ LoopFinish
    \/ ModelFails
    \/ AbortFires
    \/ ChatOnFinish
    \/ ExternalPersist

TurnSpec == TurnInit /\ [][TurnNext]_vars

\* ------------------------------------- one chat turn, its Step Log kept
\* A chat request of a signed-in user on session "s1" has reached its
\* loop.  turnLog.round counts the rounds that are over.
LogInit ==
    /\ TurnEntry(MaxTools)
    /\ ep = "chat"

\* A tool is invoked: it pushes its "start" entry.  The calls of the first
\* round run side by side; a later round is followed with one call.
LogToolStart(t) ==
    /\ pc = "loop"
    /\ t \notin turnLog.called
    /\ turnLog.round > 0 => turnLog.called = {}
    /\ turnLog' = [turnLog EXCEPT
                      !.entries = PushEntry(@, "start", t, turnLog.round + 1),
                      !.called = @ \cup {t}, !.running = @ \cup {t}]
    /\ toolsInvoked' = TRUE
    /\ UNCHANGED << owner, ep, env, pc, req, resp, probe, selectedModel, modelInfo,
                    store, store0, storeFault, nextId, round, modelState,
                    tools, loopOutcome, thrown, cardReq, card, aborted,
                    finishReason, stream, stepLog, delivered, sessions,
                    race, offer, pick, turnText >>

\* A tool's execution ends: it pushes its "done" entry when it succeeded.
LogToolEnd(t) ==
    /\ pc = "loop"
    /\ t \in turnLog.running
    /\ \E outcome \in ToolOutcomes :
          turnLog' = [turnLog EXCEPT
                        !.entries = IF outcome = "succeeds"
                                    THEN PushEntry(@, "done", t,
                                                   turnLog.round + 1)
                                    ELSE @,
                        !.running = @ \ {t}]
    /\ UNCHANGED << owner, ep, env, pc, req, resp, probe, selectedModel, modelInfo,
                    store, store0, storeFault, nextId, round, modelState,
                    tools, toolsInvoked, loopOutcome, thrown, cardReq, card,
                    aborted, finishReason, stream, stepLog, delivered,
                    sessions, race, offer, pick, turnText >>

\* The calls of the round have their results: the next round starts.
LogNextRound ==
    /\ pc = "loop"
    /\ turnLog.called # {} /\ turnLog.running = {}
    /\ turnLog.round + 1 < MaxLogRounds
    /\ turnLog' = [turnLog EXCEPT !.round = @ + 1, !.called = {}]
    /\ UNCHANGED << owner, ep, env, pc, req, resp, probe, selectedModel, modelInfo,
                    store, store0, storeFault, nextId, round, modelState,
                    tools, toolsInvoked, loopOutcome, thrown, cardReq, card,
                    aborted, finishReason, stream, stepLog, delivered,
                    sessions, race, offer, pick, turnText >>

\* The turn has finished: onFinish (route.ts lines 224 - 260) saves
\* messagesToSave; the step-log part holds a copy of stepLog.  The
\* messages the request carried end with a new question or with an
\* assistant message to continue, after no history or after a stored one.
LogOnFinish ==
    /\ pc = "loop"
    /\ turnLog.running = {}
    /\ \E m \in { f \in MessagesFields(CHOOSE h \in InitialStores : h # << >>) :
                     ~InvalidMessages(f) } :
        LET allMessages == AllMessages(m.list, nextId)
            stepLogNonEmpty == Len(turnLog.entries) > 0
            messagesToSave == MessagesToSave(allMessages, stepLogNonEmpty,
                                             nextId)
        IN  /\ req' = [req EXCEPT !.messages = m]
            /\ store' = saveChatMessages(store, req.sessionId,
                                         messagesToSave, "ok")
            /\ nextId' = nextId + Len(allMessages) + 1
            /\ turnLog' = [turnLog EXCEPT
                              !.attached = stepLogNonEmpty,
                              !.steps = IF stepLogNonEmpty
                                        THEN StepLogPart(turnLog.entries)
                                        ELSE << >>]
    /\ pc' = "done"
    /\ loopOutcome' = "finished"
    /\ UNCHANGED << owner, ep, env, resp, probe, selectedModel, modelInfo, store0,
                    storeFault, round, modelState, tools, toolsInvoked,
                    thrown, cardReq, card, aborted, finishReason, stream,
                    stepLog, delivered, sessions, race, offer, pick,
                    turnText >>

LogNext ==
    \/ \E t \in ToolIds : LogToolStart(t)
    \/ \E t \in ToolIds : LogToolEnd(t)
    \/ LogNextRound
    \/ LogOnFinish

LogSpec == LogInit /\ [][LogNext]_vars

\* ============================================================ properties
\* The request reached its handler with a JSON body and a usable
\* `messages` array.
ValidChatRequest ==
    /\ ep = "chat" /\ pc # "idle"
    /\ req.body = "object"
    /\ ~InvalidMessages(req.messages)

\* Role and content of each message of a list, in order.
RoleContent(msgs) ==
    [i \in 1..Len(msgs) |-> << msgs[i].role, msgs[i].content >>]

\* The session's list holds the request's new user message.
HoldsUserTurn(msgs) ==
    \E i \in 1..Len(msgs) : msgs[i].role = "user" /\ msgs[i].content = << "q" >>

\* C1: at every entry point the number of model rounds started never
\* exceeds the cap of that entry point (chat 10, external 15, helper 10).
C1_RoundsWithinCap ==
    /\ ep = "chat" => round <= 10
    /\ ep = "external" => round <= 15
    /\ ep = "helper" => round <= 10

\* C1 witness: the cap is reached while the model still requests tools.
C1_CapReachedWithToolIntent ==
    /\ pc = "loop" /\ ep = "external" /\ round = 15
    /\ modelState = "ended" /\ SomeCalled(tools) /\ AllResolved(tools)

\* C2: a chat request whose JSON body has `messages` missing, not an array
\* or empty is answered 400 INVALID_REQUEST.
C2_InvalidMessagesRejected ==
    ( /\ ep = "chat" /\ pc # "idle"
      /\ req.body \in {"null", "object"}
      /\ InvalidMessages(req.messages) )
    => (resp.status = 400 /\ resp.error = "INVALID_REQUEST")

\* C3 (as stated): a chat request with a non-empty messages array is
\* answered 401 AUTH_REQUIRED exactly when the deployment is hosted and the
\* body carries no token.
C3_AuthRequiredIff ==
    ValidChatRequest =>
        ( (resp.status = 401 /\ resp.error = "AUTH_REQUIRED")
          <=> (~env.selfHosted /\ ~req.valyuAccessToken) )

\* C3 (amended): ... exactly when the deployment is hosted, the body carries
\* no token and the user lookup made before the check did not throw; a
\* throwing lookup is answered by the catch block, never with 401; in
\* self-hosted mode no request is answered 401.
C3_AuthRequiredIffLookupOk ==
    ValidChatRequest =>
        /\ (resp.status = 401 /\ resp.error = "AUTH_REQUIRED")
           <=> ( /\ ~env.selfHosted /\ ~req.valyuAccessToken
                 /\ thrown.at # "lookup" )
        /\ thrown.at = "lookup" =>
              resp \in { ChatError("CHAT_ERROR", 500),
                         ChatError("MODEL_COMPATIBILITY_ERROR", 400) }
        /\ env.selfHosted => resp.status # 401

\* C3 witness: a valid hosted request without token was answered 401.
C3_Rejected401 ==
    ValidChatRequest /\ resp.status = 401 /\ ~env.selfHosted

\* The request went on after provider resolution: if it has ended, it
\* ended in a later stage.
WentOnAfterResolution ==
    pc = "done" =>
        \/ thrown.at \in {"store", "persist", "inference", "onFinish"}
        \/ loopOutcome # "none"

\* C4 (as stated): at every entry point a failed probe yields a hosted
\* model handle and the request goes on.
C4_ProbeFailureFallsBack ==
    ProbeFailed(probe) =>
        /\ selectedModel \in {"openai", "gateway"}
        /\ WentOnAfterResolution

\* C4 (amended): a failed probe never throws; it yields a hosted model
\* handle and the request goes on, at the chat endpoint and in the helper
\* always and at the external endpoint when an OpenAI key is configured;
\* at the external endpoint without a key the request ends with a 500
\* error response and no model round.
C4_ProbeFailureFallsBackOrKeyError ==
    ProbeFailed(probe) =>
        IF ep = "external" /\ ~env.hasOpenAIKey
        THEN /\ pc = "done" /\ round = 0
             /\ selectedModel = "none"
             /\ resp = ExternalError(500, "local unavailable, no key")
             /\ thrown = NoThrow
        ELSE /\ selectedModel \in {"openai", "gateway"}
             /\ WentOnAfterResolution

\* C4 witness: the probe timed out and a model round has started.
C4_FallbackReachedInference ==
    probe = "timeout" /\ round >= 1 /\ selectedModel \in {"openai", "gateway"}

\* C5: for an authenticated user with a session id, the store holds the
\* new user message whenever a model round has started.
C5_UserTurnStoredBeforeInference ==
    ( /\ ep \in {"chat", "external"}
      /\ req.user # "none" /\ req.sessionId # "none"
      /\ Len(req.messages.list) > 0
      /\ req.messages.list[Len(req.messages.list)].role = "user"
      /\ ~storeFault
      /\ round >= 1 )
    => HoldsUserTurn(store[req.sessionId])

\* The chat turn of C6: an authenticated user with a session, a client that
\* sent the stored history followed by a new user message, a loop that
\* finished, and a store that answered every call.
ChatTurnCompleted ==
    /\ ep = "chat" /\ pc = "done" /\ loopOutcome = "finished"
    /\ ChatSavesOnFinish(req)
    /\ ~storeFault
    /\ LET l == req.messages.list
       IN  /\ Len(l) > 0
           /\ l[Len(l)].role = "user"
           /\ SubSeq(l, 1, Len(l) - 1) = AsUIMessages(store0[req.sessionId])

\* C6: after such a turn the stored sequence is the previously stored
\* sequence, then the new user message, then the new assistant message.
C6_StoredInCallOrder ==
    ChatTurnCompleted =>
        RoleContent(store[req.sessionId]) =
            RoleContent(store0[req.sessionId])
            \o << << "user", << "q" >> >>,
                  << "assistant", IF toolsInvoked
                                  THEN << "ans", "step-log" >>
                                  ELSE << "ans" >> >> >>

\* C6 witness: such a turn on a session that had a history.
C6_TurnOnHistory ==
    ChatTurnCompleted /\ Len(store0[req.sessionId]) = 2 /\ toolsInvoked

\* C7: when the loop has finished, a failure of the store does not change
\* what the client receives: the answer, with a success status.
C7_StoreFailureKeepsAnswer ==
    ( /\ ep \in {"chat", "external"}
      /\ pc = "done" /\ loopOutcome = "finished"
      /\ storeFault )
    => (resp.status = 200 /\ resp.text = "answer")

\* C10: a model round starts only when every tool call of the round before
\* it has resolved, and a tool call starts only in the round in progress.
C10_RoundBarrier ==
    [][ /\ round' # round => AllResolved(tools)
        /\ \A t \in ToolIds :
              (tools[t] # "running" /\ tools'[t] = "running")
                  => (round' = round /\ round >= 1) ]_vars

\* C10 witness: a second round runs a tool call after the first round's
\* calls resolved.
C10_SecondRoundToolRunning ==
    round = 2 /\ tools[1] = "running" /\ tools[2] = "none"

\* The tool calls of the current round that are executing.
InFlight == { t \in DOMAIN tools : tools[t] = "running" }

\* C11: at no moment are more than 5 tool calls in flight within one
\* request, also when the model requests more than 5 in one round.
C11_AtMostFiveInFlight ==
    Cardinality(InFlight) <= MaxParallelToolCalls

\* C12: a tool invocation that fails is handed to the model as the result
\* of that call and the loop goes on (to the next round, or to its end when
\* the cap is reached); a tool failure does not end the request with an
\* error response.
C12_ToolFailureGoesOn ==
    ( /\ pc = "loop" /\ loopOutcome = "none"
      /\ \E t \in DOMAIN tools : tools[t] = "error" )
    => /\ thrown = NoThrow
       /\ resp.error = "" /\ resp.status \in {0, 200}
       /\ ( /\ modelState = "ended"
            /\ \A t \in DOMAIN tools : tools[t] # "running" )
          => IF round < StepCap(ep)
             THEN ENABLED StartRound
             ELSE ENABLED LoopFinish

\* C12 witness: the round's model output has ended, a call of the round
\* has failed, nothing is running, and the next round can start.
C12_FailedCallBeforeNextRound ==
    /\ pc = "loop" /\ modelState = "ended" /\ round = 1
    /\ tools[1] = "error"
    /\ \A t \in DOMAIN tools : tools[t] # "running"
    /\ ENABLED StartRound

\* C13: the chat endpoint answers MODEL_COMPATIBILITY_ERROR only for a
\* model-compatibility failure: a failure of the body parse, of the user
\* lookup or of the store that reaches the catch block is answered
\* CHAT_ERROR with status 500.
C13_OtherFailuresAnswered500 ==
    ( /\ ep = "chat" /\ pc = "done"
      /\ thrown.at \in {"body", "lookup", "store"} )
    => resp = ChatError("CHAT_ERROR", 500)

\* C14: when the round cap is reached while the model still requests tools,
\* at every entry point the loop ends and the caller receives the text of
\* all the rounds that ran, as a success and not as an error.
C14_CapKeepsAllText ==
    ( /\ pc = "done" /\ loopOutcome = "finished"
      /\ finishReason = "tool-calls"
      /\ ~storeFault )
    => /\ round = StepCap(ep)
       /\ resp.error = "" /\ resp.text = "answer"
       /\ delivered = Delivery(1, round)

\* C15: in the chat stream every event of round n+1 is emitted after every
\* event of round n (when the first event of a round is written, the text
\* of the round before has ended and each of its started calls has its
\* finished event), and a call's finished event comes after its started
\* event.
C15_StreamOrderedByRound ==
    /\ [](stream.finished \subseteq stream.started)
    /\ [][ /\ stream'.round >= stream.round
           /\ stream'.round # stream.round
                 => \/ stream.round = 0
                    \/ stream.textEnded /\ stream.finished = stream.started
           /\ \A t \in stream'.finished \ stream.finished :
                 t \in stream.started /\ stream'.round = stream.round ]_vars

\* C15 witness: the stream is in its second round and holds the finished
\* event of the round's first call while the second call has only started.
C15_SecondRoundEvents ==
    /\ ep = "chat" /\ stream.round = 2
    /\ stream.started = {1, 2} /\ stream.finished = {1}

\* C16: in the Step Log the "start" entry of a call precedes its "done"
\* entry, and no "done" entry is logged without an earlier "start" entry of
\* the same call, whatever the interleaving of the calls.
C16_StartBeforeDone ==
    /\ [](stepLog.done \subseteq stepLog.started)
    /\ [][ \A t \in stepLog'.done \ stepLog.done : t \in stepLog.started ]_vars

\* C16 witness: two calls started in one round; the second is done while
\* the first is still running.
C16_LateFirstCall ==
    /\ stepLog.started = {1, 2} /\ stepLog.done = {2}
    /\ tools[1] = "running"

\* C17: a chat stream that finishes naturally contains exactly one
\* step-timing summary event, emitted after the last text and tool event.
C17_OneTimingSummary ==
    ( /\ ep = "chat" /\ loopOutcome = "finished"
      /\ pc \in {"finish", "done"} )
    => stream.timing = 1

\* C18: at every entry point, once the abort signal has fired (timeout or
\* client disconnect) no further round starts and no tool call stays in
\* flight, while the text already sent stays sent.
C18_AbortStopsLoop ==
    /\ [](aborted => InFlight = {})
    /\ [][ aborted => /\ round' = round
                      /\ delivered'.to >= delivered.to ]_vars

\* Provider resolution has finished: a handle was chosen, or the external
\* endpoint answered one of its two no-key errors.
Resolved ==
    \/ selectedModel # "none"
    \/ resp.error \in {"local unavailable, no key", "key required"}

\* C19 (as stated): at every entry point resolution ends with a usable
\* handle or an explicit no-provider error, the error only without a paid
\* credential and without a reachable local provider; without a credential
\* and with a remote model needed, the gateway alias is selected.
C19_HandleOrGatewayAlias ==
    /\ pc \in {"saveUser", "load", "loop", "persist", "finish"} => Resolved
    /\ Resolved =>
          /\ selectedModel = "none" => (~env.hasOpenAIKey /\ probe # "ok")
          /\ (~env.hasOpenAIKey /\ selectedModel # "local")
                => selectedModel = "gateway"

\* C19 (amended): resolution always ends, without throwing.  A reachable
\* local provider that was probed gives the local handle.  Otherwise the
\* chat endpoint selects the OpenAI handle with a key and the gateway alias
\* without one, and never an error; the external endpoint selects the
\* OpenAI handle with a key and answers a 500 error without one, and never
\* the gateway alias; the helper selects the OpenAI handle with or without
\* a key, and neither the gateway alias nor an error.
C19_ResolutionByEntryPoint ==
    /\ pc \in {"saveUser", "load", "loop", "persist", "finish"}
          => selectedModel # "none"
    /\ Resolved =>
          IF probe = "ok" THEN selectedModel = "local"
          ELSE CASE ep = "chat" ->
                      selectedModel = IF env.hasOpenAIKey THEN "openai"
                                                          ELSE "gateway"
                 [] ep = "external" ->
                      IF env.hasOpenAIKey
                      THEN selectedModel = "openai"
                      ELSE /\ selectedModel = "none"
                           /\ pc = "done" /\ round = 0
                           /\ thrown = NoThrow
                           /\ resp.status = 500 /\ resp.success = "false"
                 [] OTHER -> selectedModel = "openai"

\* C19 witness: the external endpoint, without a key and without a probe,
\* has answered its no-key error.
C19_ExternalKeyRequired ==
    /\ ep = "external" /\ ~env.hasOpenAIKey /\ probe = "none"
    /\ resp = ExternalError(500, "key required")

\* The stored message is kept by the list: as it is, or, when it is an
\* assistant message and the last of the list, with the step-log part
\* appended.
KeptIn(old, list) ==
    \E j \in 1..Len(list) :
        \/ list[j] = old
        \/ /\ old.role = "assistant" /\ j = Len(list)
           /\ list[j] = [old EXCEPT !.content = @ \o << "step-log" >>]

\* C20: once a message is persisted, no later save changes its identifier,
\* role, content or processing time, or removes it; the one permitted
\* change is appending the step-log part to the turn's final assistant
\* message.
C20_PersistedMessagesImmutable ==
    [][ \A sid \in SessionIds :
           \A i \in 1..Len(store[sid]) :
              KeptIn(store[sid][i], store'[sid]) ]_vars

\* C21: after a turn in which messages are persisted under a session id, a
\* session record with that id exists, also when the client supplied an id
\* that was not yet in the store.
C21_PersistedUnderExistingSession ==
    pc = "done" =>
        \A sid \in SessionIds : store[sid] # << >> => sid \in sessions

\* The roles and contents of the messages handed to the model.
RoleParts(msgs) ==
    [i \in 1..Len(msgs) |-> << msgs[i].role, msgs[i].parts >>]

\* C22: a follow-up request of a signed-in caller of the external endpoint
\* that carries the sessionId an earlier successful request returned gives
\* the model the earlier user message, the earlier answer and then the new
\* user message, in this order.
C22_FollowUpReplaysEarlierTurn ==
    ( /\ ep = "external" /\ pc = "loop"
      /\ req.user # "none" /\ ~storeFault
      /\ req.sessionId = "new" /\ ~req.isNewSession
      /\ store0["new"] # << >> )
    => RoleParts(req.messages.list) =
          << << "user", << "q" >> >>,
             << "assistant", << "ans" >> >>,
             << "user", << "q" >> >> >>

\* The request asks for the response format, in its body or its header.
AsksFormat(f) == offer.format = f \/ offer.header = f

\* C23: a chat request with response format 'finance-gpt-copy', as body
\* field or as header, runs with a system prompt that is not the default
\* chat prompt, and with the tools of the main chat.
C23_FinanceGptCopyHasOwnPrompt ==
    ( /\ ep = "chat" /\ offer.prompt # "none"
      /\ AsksFormat("finance-gpt-copy") )
    => /\ offer.prompt # systemPrompt(FALSE)
       /\ offer.tools = toolsForRequest

\* C24: at every entry point whose output is plain text only (chat in
\* either format, the external endpoint, the completion helper) the tools
\* offered to the model do not contain the chart tool.
C24_NoChartToolOffered ==
    offer.prompt # "none" => "createChart" \notin offer.tools

\* The request switched the local provider off: header x-ollama-enabled:
\* false (chat), disableLocal true (external, helper).
LocalSwitchedOff ==
    CASE ep = "chat" -> ~req.ollamaEnabledHeader
      [] OTHER -> req.disableLocal

\* C25 (as stated): when the request switches the local provider off, no
\* probe is made and the selected model is a remote one, in either
\* deployment mode.
C25_SwitchedOffSelectsRemote ==
    LocalSwitchedOff =>
        /\ probe = "none"
        /\ selectedModel \in {"openai", "gateway"}

\* C25 (amended): when the request switches the local provider off, no
\* probe is made, in either deployment mode.  The chat endpoint and the
\* helper then select a remote model; the external endpoint selects the
\* OpenAI model when an OpenAI key is configured and otherwise answers a
\* 500 error ('OpenAI API key is required') without selecting a model.
C25_SwitchedOffRemoteOrKeyError ==
    LocalSwitchedOff =>
        /\ probe = "none"
        /\ IF ep = "external" /\ ~env.hasOpenAIKey
           THEN /\ selectedModel = "none"
                /\ resp = ExternalError(500, "key required")
                /\ pc = "done" /\ round = 0
           ELSE selectedModel \in {"openai", "gateway"}

\* C25 witness: a self-hosted chat request with the header set to false
\* has reached inference with a remote model.
C25_SelfHostedHeaderOff ==
    /\ ep = "chat" /\ env.selfHosted /\ ~req.ollamaEnabledHeader
    /\ round >= 1 /\ selectedModel \in {"openai", "gateway"}

\* The JSON error responses of the chat endpoint: discriminator and status.
ChatErrorResponses ==
    { ChatError("INVALID_REQUEST", 400), ChatError("AUTH_REQUIRED", 401),
      ChatError("MODEL_COMPATIBILITY_ERROR", 400),
      ChatError("CHAT_ERROR", 500) }

\* C26: every chat request ends in exactly one of a streamed response or
\* a JSON error whose discriminator is INVALID_REQUEST (400), AUTH_REQUIRED
\* (401), MODEL_COMPATIBILITY_ERROR (400) or CHAT_ERROR (500); an error
\* that reaches the catch block is answered with one of these, and until
\* the request has ended no JSON response exists.
C26_StreamOrDiscriminatedError ==
    ep = "chat" =>
        /\ pc = "done" =>
              \/ /\ resp.kind = "stream" /\ resp.status = 200
                 /\ resp.error = ""
              \/ resp \in ChatErrorResponses
        /\ pc # "done" => resp.kind \in {"none", "stream"}
        /\ thrown.at \in {"body", "lookup", "store"} =>
              /\ pc = "done"
              /\ resp \in { ChatError("MODEL_COMPATIBILITY_ERROR", 400),
                            ChatError("CHAT_ERROR", 500) }

\* C26 witness: a throw of the store has been caught and answered
\* CHAT_ERROR with status 500.
C26_StoreThrowAnswered ==
    /\ ep = "chat" /\ pc = "done" /\ thrown = Thrown("store", "plain")
    /\ resp = ChatError("CHAT_ERROR", 500)

\* Both requests of the pair have ended.
RaceOver == \A r \in RaceIds : race.reqs[r].pc = "done"

\* C27: the store's operations on a session are read-then-write and the
\* last writer wins: with two interleaved chat requests on one session,
\* the stored sequence is at every moment exactly the list of the save
\* that went through last.  No request waits for the other: a request may
\* read or save while the other one is between its read and its saves.
C27_LastWriterWins ==
    /\ store["s1"] = race.last
    /\ \A r \in RaceIds :
          race.reqs[r].pc = "read" => ENABLED RaceRead(r)
    /\ \A r \in RaceIds :
          race.reqs[r].pc = "save" => ENABLED RaceSaveUser(r)
    /\ \A r \in RaceIds :
          race.reqs[r].pc = "stream" => ENABLED RaceOnFinish(r)

\* C27 witness: both requests have ended, request 2 saved last, and the
\* question request 1 persisted is missing from the stored sequence.
C27_OtherRequestsMessageLost ==
    /\ RaceOver
    /\ race.writer = 2
    /\ << "user", << "q1" >> >> \in race.persisted[1]
    /\ << "user", << "q1" >> >> \notin RoleContents(store["s1"])
    /\ << "user", << "q2" >> >> \in RoleContents(store["s1"])

\* The text of a stored message's content: the parts the turn generated
\* ("ans") hold the turn's text deltas, the Step Log part holds no text,
\* and a part the request carried holds what it held.
RECURSIVE TextOf(_, _)
TextOf(content, deltas) ==
    IF content = << >> THEN << >>
    ELSE LET part == Head(content)
             partText == CASE part = "ans" -> deltas
                           [] part = "step-log" -> << >>
                           [] OTHER -> << part >>
         IN  partText \o TextOf(Tail(content), deltas)

\* A chat turn has completed and onFinish has persisted its messages.
ChatAnswerPersisted ==
    /\ ep = "chat" /\ pc = "done" /\ loopOutcome = "finished"
    /\ ChatSavesOnFinish(req) /\ ~storeFault

\* The text of the assistant message the chat turn persisted.
PersistedAnswerText ==
    LET stored == store[req.sessionId]
    IN  TextOf(stored[Len(stored)].content, turnText.deltas)

\* C28 (as stated): for every completed turn, the text deltas concatenated
\* in arrival order are exactly the final assistant answer persisted
\* (chat) or returned (external).
C28_DeltasAreTheAnswer ==
    /\ ChatAnswerPersisted => PersistedAnswerText = turnText.deltas
    /\ (ep = "external" /\ resp = ExternalSuccess)
          => turnText.responseText = turnText.deltas

\* C28 (amended): for every completed turn, the text deltas concatenated
\* in arrival order are exactly the answer the external endpoint returns,
\* and exactly the text of the assistant message the chat endpoint
\* persists when the request's last message is a user message; when the
\* request's last message is an assistant message, the persisted assistant
\* message holds that message's parts followed by the text deltas.
C28_DeltasAreTheTurnsText ==
    /\ ChatAnswerPersisted =>
          LET lastMessage == req.messages.list[Len(req.messages.list)]
          IN  PersistedAnswerText =
                 (IF lastMessage.role = "assistant"
                  THEN lastMessage.parts ELSE << >>) \o turnText.deltas
    /\ (ep = "external" /\ resp = ExternalSuccess)
          => turnText.responseText = turnText.deltas

\* C28 witness: a chat turn of two rounds that continued an assistant
\* message has been persisted.
C28_ContinuedMessagePersisted ==
    /\ ChatAnswerPersisted
    /\ req.messages.list[Len(req.messages.list)].role = "assistant"
    /\ Len(turnText.deltas) = 2

\* The members of a list.
Listed(l) == { l[i] : i \in DOMAIN l }

\* The choice as the claim words it: the requested model if it is in the
\* list; otherwise the listed model that matches the earliest preferred
\* fragment having any match; otherwise the first listed model.
ChoiceAmong(l, requested, preferred) ==
    IF requested \in Listed(l) THEN requested
    ELSE LET hit(k) == { i \in DOMAIN l : includes(l[i], preferred[k]) }
             hits == { k \in DOMAIN preferred : hit(k) # {} }
         IN  IF hits = {} THEN l[1]
             ELSE LET k == CHOOSE x \in hits : \A y \in hits : x <= y
                  IN  l[CHOOSE i \in hit(k) : \A j \in hit(k) : i <= j]

C30_NeverEmbeddingModel ==
    pick.outcome = "local" => KeptByFilter(pick.chosen)

\* Resolution has run and the request did not switch the local provider
\* off (chat: header x-ollama-enabled; external: disableLocal and the
\* header; helper: disableLocal).
LocalNotSwitchedOff ==
    /\ Resolved
    /\ CASE ep = "chat" -> req.ollamaEnabledHeader
         [] ep = "external" -> ~req.disableLocal /\ req.ollamaEnabledHeader
         [] OTHER -> ~req.disableLocal

C32_ThinkFlagFollowsModelName ==
    pick.outcome = "local" =>
        pick.think = IF MatchesThinkingModel(pick.chosen)
                     THEN "true" ELSE "false"

\* The paths whose labels, at entry point e, include the label given.
PathsOf(label, e) ==
    { path \in {"local", "hosted", "fallback"} :
        label \in
          CASE path = "local" ->
                  { LocalModelInfo(e, p, n, t) :
                      p \in {"ollama", "lmstudio"}, n \in ModelNames,
                      t \in BOOLEAN }
            [] path = "hosted" ->
                  { HostedModelInfo(e, k) : k \in BOOLEAN }
            [] OTHER ->
                  { FallbackModelInfo(e, k) : k \in BOOLEAN } }

\* C33: the label of provider resolution determines the path taken: the
\* labels of the local, hosted and fallback paths are pairwise distinct,
\* and the decision 'using local provider' derived from the label is true
\* exactly when the probe succeeded and a local model was selected,
\* whatever the local model's name.
C33_LabelEncodesPath ==
    (pc = "done" /\ pick.label # << >>) =>
        /\ PathsOf(pick.label, ep) = {pick.outcome}
        /\ pick.usingLocal <=> pick.outcome = "local"
        /\ pick.outcome = "local" <=>
              (probe = "ok" /\ selectedModel = "local")
        /\ \A p \in {"ollama", "lmstudio"}, n \in ModelNames, t \in BOOLEAN :
              isUsingLocalProvider(TRUE, TRUE, LocalModelInfo(ep, p, n, t))

\* C33 witness: the chat endpoint has chosen a thinking-capable local
\* model, its label carries the provider's name, and the decision is true.
C33_LocalLabelDecidesLocal ==
    /\ pc = "done" /\ ep = "chat" /\ pick.outcome = "local"
    /\ pick.label = LocalModelInfo("chat", pick.provider, pick.chosen, TRUE)
    /\ pick.usingLocal /\ pick.think = "true"

\* The messages of the stored list that hold a step-log part.
WithStepLog(msgs) ==
    { i \in DOMAIN msgs :
        \E k \in DOMAIN msgs[i].content : msgs[i].content[k] = "step-log" }

\* C34: when the chat endpoint persists a finished turn, a step-log part
\* is attached to a message if and only if the message is the final
\* assistant message of the turn and at least one tool was invoked during
\* the turn; the part lists all entries of the turn's Step Log in the
\* order they were recorded.
C34_StepLogOnFinalAssistantOnly ==
    (pc = "done" /\ loopOutcome = "finished") =>
        LET stored == store[req.sessionId]
        IN  /\ stored # << >>
            /\ stored[Len(stored)].role = "assistant"
            /\ WithStepLog(stored) =
                  IF toolsInvoked THEN {Len(stored)} ELSE {}
            /\ toolsInvoked <=> turnLog.entries # << >>
            /\ turnLog.attached <=> toolsInvoked
            /\ turnLog.attached => turnLog.steps = turnLog.entries

\* C34 witness: a turn of two rounds, whose second call failed, has been
\* persisted after a history of two messages; the part holds the three
\* entries in their order.
C34_ThreeEntriesAttached ==
    /\ pc = "done" /\ loopOutcome = "finished"
    /\ Len(store[req.sessionId]) = 4
    /\ WithStepLog(store[req.sessionId]) = {4}
    /\ Len(turnLog.steps) = 3
    /\ turnLog.steps[1].phase = "start" /\ turnLog.steps[1].round = 1
    /\ turnLog.steps[2].phase = "done" /\ turnLog.steps[2].round = 1
    /\ turnLog.steps[3].phase = "start" /\ turnLog.steps[3].round = 2

\* The sessions whose stored list the request has written.
WrittenSessions == { sid \in SessionIds : store[sid] # store0[sid] }

\* C35: every message the chat endpoint has written to the store has an
\* identifier in the canonical UUID format: an incoming message id that
\* does not match the format is replaced by a generated UUID and is not
\* stored as it came.
C35_ChatWritesUuidIds ==
    ep = "chat" =>
        \A sid \in WrittenSessions :
            \A i \in DOMAIN store[sid] :
                /\ UUID_REGEX(store[sid][i].id)
                /\ \A k \in DOMAIN req.messages.list :
                      ~UUID_REGEX(req.messages.list[k].id)
                         => store[sid][i].id # req.messages.list[k].id

\* C35 witness: a chat turn whose request carried stored history and a new
\* question with a client-generated id has been persisted by onFinish.
C35_ClientIdReplaced ==
    /\ ep = "chat" /\ pc = "done" /\ loopOutcome = "finished"
    /\ ChatSavesOnFinish(req) /\ ~storeFault
    /\ Len(req.messages.list) = 3
    /\ ~UUID_REGEX(req.messages.list[3].id)
    /\ Len(store[req.sessionId]) = 4
    /\ store[req.sessionId][1].id = req.messages.list[1].id

\* The request has persisted its assistant turn: onFinish of the chat
\* endpoint, or the saves of the external endpoint, went through.
AssistantTurnPersisted ==
    \/ ChatAnswerPersisted
    \/ /\ ep = "external" /\ pc = "done" /\ resp = ExternalSuccess
       /\ req.user # "none" /\ ~storeFault

\* C36: at every entry point that persists the assistant turn, the stored
\* final assistant message carries the turn's measured processing time,
\* and no user message is stored with a processing time.
C36_ProcessingTimeOnAssistantOnly ==
    AssistantTurnPersisted =>
        LET stored == store[req.sessionId]
        IN  /\ stored # << >>
            /\ stored[Len(stored)].role = "assistant"
            /\ stored[Len(stored)].pt = "time"
            /\ \A i \in DOMAIN stored :
                  stored[i].role = "user" => stored[i].pt = "none"

\* C37: for two chat requests that differ only in the response format
\* token (chat, cards), the tool set offered to the model and the round
\* cap are the same and only the system prompt differs; provider
\* selection and the persistence actions take no format; the options are
\* computed once, before the loop.
C37_FormatChangesPromptOnly ==
    (ep = "chat" /\ pc = "done") =>
        /\ offer = CallOptions("chat", offer.format, offer.header)
        /\ \A f \in {"chat", "cards"} :
              LET other == CallOptions("chat", f, offer.header)
              IN  /\ other.tools = offer.tools
                  /\ other.stopWhen = offer.stopWhen
                  /\ other.prompt # offer.prompt
                        <=> useCardsFormat(f, offer.header)
                            # useCardsFormat(offer.format, offer.header)
        /\ offer.header # "cards" =>
              CallOptions("chat", "chat", offer.header).prompt
                 # CallOptions("chat", "cards", offer.header).prompt
        /\ ~ENABLED Configure

\* C37 witness: a chat request in the cards format runs with the cards
\* prompt, the tools of the chat format and the round cap of 10.
C37_CardsRequestConfigured ==
    /\ ep = "chat" /\ pc = "done"
    /\ offer.format = "cards" /\ offer.header = "missing"
    /\ offer.prompt = "systemPromptCards"
    /\ offer.tools = CallOptions("chat", "chat", "missing").tools
    /\ offer.stopWhen = ChatStepCap

\* The responses of the validation and of the sign-in check.
\*   chat: lines 18 - 23 and 31 - 36;  external: lines 50 - 59
RejectedAtTheDoor ==
    resp \in { ChatError("INVALID_REQUEST", 400),
               ChatError("AUTH_REQUIRED", 401),
               ExternalError(400, "message required") }

NamesAnothersSession ==
    /\ req.user # "none"
    /\ req.sessionId \in SessionIds
    /\ owner[req.sessionId] \notin {"none", req.user}

\* The identifiers of the messages a session held when the request came.
StoredIds(sid) == { store0[sid][i].id : i \in 1..Len(store0[sid]) }

\* C39: a request of a signed-in user that names a session of another
\* user loads no stored message of that session into the model's input
\* and saves nothing under the session's id.
C39_AnothersSessionNeitherReadNorWritten ==
    NamesAnothersSession =>
        /\ store[req.sessionId] = store0[req.sessionId]
        /\ ep = "external" =>
              \A i \in 1..Len(req.messages.list) :
                  req.messages.list[i].id \notin StoredIds(req.sessionId)

\* ================================================== the card endpoint
\* The text of a model response is a sequence of characters:
\*   "a"  a letter of prose          " "  white space
\*   "#"  a backtick                 "j"  the word json after a fence
\*   "{" "}"  braces                 "5"  a digit
\*   "t"  the member "title": "T"    "c"  the member "content": "C"
\*   "e"  any other member (emoji)
\* Inside braces "{" stands for a member whose value is an object.

RECURSIVE TrimLeft(_), TrimRight(_)
TrimLeft(s) ==
    IF s # << >> /\ Head(s) = " " THEN TrimLeft(Tail(s)) ELSE s

TrimRight(s) ==
    IF s # << >> /\ s[Len(s)] = " "
    THEN TrimRight(SubSeq(s, 1, Len(s) - 1))
    ELSE s

\* String.prototype.trim
trim(s) == TrimRight(TrimLeft(s))

\* String.prototype.indexOf: the 0-based index of the first ch, or -1.
indexOf(s, ch) ==
    IF \E i \in 1..Len(s) : s[i] = ch
    THEN (CHOOSE i \in 1..Len(s) :
             s[i] = ch /\ \A k \in 1..(i - 1) : s[k] # ch) - 1
    ELSE -1

\* String.prototype.lastIndexOf: the 0-based index of the last ch, or -1.
lastIndexOf(s, ch) ==
    IF \E i \in 1..Len(s) : s[i] = ch
    THEN (CHOOSE i \in 1..Len(s) :
             s[i] = ch /\ \A k \in (i + 1)..Len(s) : s[k] # ch) - 1
    ELSE -1

\* str.slice(from), from >= 0
sliceFrom(s, from) == SubSeq(s, from + 1, Len(s))

\* str.slice(0, to), to >= 0
sliceTo(s, to) == SubSeq(s, 1, to)

\* A fence (three backticks) starts at position i (1-based).
FenceAt(s, i) ==
    i + 2 <= Len(s) /\ s[i] = "#" /\ s[i + 1] = "#" /\ s[i + 2] = "#"

\* The position after an opening fence at i and its optional json tag.
AfterOpeningFence(s, i) ==
    IF i + 3 <= Len(s) /\ s[i + 3] = "j" THEN i + 4 ELSE i + 3

\* Opening fences that have a closing fence after them.
FenceStarts(s) ==
    { i \in 1..Len(s) :
        /\ FenceAt(s, i)
        /\ \E k \in AfterOpeningFence(s, i)..Len(s) : FenceAt(s, k) }

\* text.match of the fence pattern (fence, optional json, white space,
\* shortest group 1, fence): whether it matches, and its group 1 up to
\* white space at its start (the caller trims it).
codeBlock(s) ==
    IF FenceStarts(s) = {}
    THEN [matched |-> FALSE, group |-> << >>]
    ELSE LET i == CHOOSE x \in FenceStarts(s) :
                     \A y \in FenceStarts(s) : x <= y
             from == AfterOpeningFence(s, i)
             to == CHOOSE k \in from..Len(s) :
                      FenceAt(s, k) /\ \A y \in from..(k - 1) : ~FenceAt(s, y)
         IN  [matched |-> TRUE, group |-> SubSeq(s, from, to - 1)]

\* Nesting depth after the first k characters.
Depth(s, k) ==
    Cardinality({i \in 1..k : s[i] = "{"})
    - Cardinality({i \in 1..k : s[i] = "}"})

\* s is the text of one JSON object.
IsObjectText(s) ==
    /\ Len(s) >= 2
    /\ s[1] = "{" /\ s[Len(s)] = "}"
    /\ \A i \in 1..Len(s) : s[i] \in {"{", "}", "t", "c", "e", " "}
    /\ \A k \in 1..(Len(s) - 1) : Depth(s, k) >= 1
    /\ Depth(s, Len(s)) = 0

\* s is the text of a JSON number.
IsNumberText(s) ==
    Len(s) >= 1 /\ \A i \in 1..Len(s) : s[i] = "5"

\* The object has member m at its top level.
HasMember(s, m) ==
    \E i \in 1..Len(s) : s[i] = m /\ Depth(s, i) = 1

\* JSON.parse: a SyntaxError (ok = FALSE), or the value parsed, by its
\* kind and its title and content members.
JSONparse(s) ==
    LET u == trim(s)
    IN  IF IsObjectText(u)
        THEN [ok |-> TRUE, kind |-> "object",
              title |-> IF HasMember(u, "t") THEN "T" ELSE "",
              content |-> IF HasMember(u, "c") THEN "C" ELSE ""]
        ELSE IF IsNumberText(u)
        THEN [ok |-> TRUE, kind |-> "number", title |-> "", content |-> ""]
        ELSE [ok |-> FALSE, kind |-> "none", title |-> "", content |-> ""]

\* card route, lines 355 - 361: the text handed to JSON.parse.  lastBrace
\* is an index into the text already cut at firstBrace, and is compared
\* with firstBrace, an index into the text before the cut.
jsonStr(text) ==
    LET s0 == IF codeBlock(text).matched
              THEN trim(codeBlock(text).group)
              ELSE trim(text)
        firstBrace == indexOf(s0, "{")
        s1 == IF firstBrace >= 0 THEN sliceFrom(s0, firstBrace) ELSE s0
        lastBrace == lastIndexOf(s1, "}")
    IN  IF lastBrace > firstBrace THEN sliceTo(s1, lastBrace + 1) ELSE s1

\* The status the catch block of the card route answers with.
CardCatchStatus == 500

\* card route, POST: lines 333 - 387.
\*   symbol: "missing", "blank" or a ticker;  completion: whether
\*   runSingleMessageCompletion returned text or rejected.
CardAnswer(symbol, completion, text) ==
    IF symbol \in {"missing", "blank"}
    THEN CardResponse(400, FALSE, "", "")
    ELSE IF completion = "throws"
    THEN CardResponse(CardCatchStatus, FALSE, "", "")
    ELSE IF trim(text) = << >>
    THEN CardResponse(502, FALSE, "", "")
    ELSE LET parsed == JSONparse(jsonStr(text))
         IN  IF ~parsed.ok
             THEN CardResponse(CardCatchStatus, FALSE, "", "")
             ELSE IF parsed.title = "" \/ parsed.content = ""
             THEN CardResponse(502, FALSE, "", "")
             ELSE CardResponse(200, TRUE, parsed.title, parsed.content)

\* n letters of prose.
Prose(n) == [i \in 1..n |-> "a"]

\* Prose is set off from what it surrounds by white space.
Sep(n) == IF n > 0 THEN << " " >> ELSE << >>

\* JSON objects a model may answer with.
ObjectTexts ==
    { << "{", "t", "c", "}" >>,
      << "{", "t", "e", "c", "}" >>,
      << "{", "t", "{", "e", "}", "c", "}" >>,
      << "{", "c", "}" >> }

\* The objects that carry a title and a content.
CardObjectTexts ==
    { o \in ObjectTexts : HasMember(o, "t") /\ HasMember(o, "c") }

\* What else the answer may hold where the object is expected.
OtherPayloads == { << >>, << " " >>, << "5" >>, << "{", "t", "c" >> }

\* payload, bare or in a code fence.
Wrap(fence, payload) ==
    CASE fence = "none" -> payload
      [] fence = "plain" -> << "#", "#", "#", " " >> \o payload
                            \o << " ", "#", "#", "#" >>
      [] OTHER -> << "#", "#", "#", "j", " " >> \o payload
                  \o << " ", "#", "#", "#" >>

\* prose, payload (bare or fenced), prose.
Framed(n, fence, payload, m) ==
    Prose(n) \o Sep(n) \o Wrap(fence, payload) \o Sep(m) \o Prose(m)

Fences == {"none", "plain", "json"}

\* The response texts the model is given.
ModelTexts ==
    { Framed(n, f, p, m) :
        n \in 0..MaxProse, f \in Fences,
        p \in ObjectTexts \cup OtherPayloads, m \in 0..MaxTail }

CardInit ==
    /\ ep = "card"
    /\ env = [selfHosted |-> FALSE, hasOpenAIKey |-> TRUE]
    /\ pc = "idle"
    /\ req = NoRequest
    /\ resp = NoResponse
    /\ probe = "none"
    /\ selectedModel = "none"
    /\ modelInfo = "none"
    /\ store = [s \in SessionIds |-> << >>]
    /\ store0 = store
    /\ storeFault = FALSE
    /\ nextId = 3
    /\ round = 0
    /\ modelState = "idle"
    /\ tools = [t \in ToolIds |-> "none"]
    /\ toolsInvoked = FALSE
    /\ loopOutcome = "none"
    /\ thrown = NoThrow
    /\ cardReq \in
          { [symbol |-> s, completion |-> "none", text |-> << >>] :
               s \in {"missing", "blank"} }
          \cup { [symbol |-> "AAPL", completion |-> "throws", text |-> << >>] }
          \cup { [symbol |-> "AAPL", completion |-> "returns", text |-> t] :
                   t \in ModelTexts }
    /\ card = NoCard
    /\ aborted = FALSE
    /\ finishReason = "none"
    /\ stream = NoStream
    /\ stepLog = NoStepLog
    /\ delivered = NoDelivery
    /\ sessions = {"s1"}
    /\ race = NoRace
    /\ offer = NoOffer
    /\ pick = NoPick
    /\ turnText = NoText
    /\ turnLog = NoTurnLog
    /\ owner = FirstOwners(sessions, "u1")

\* The card endpoint answers the request.
CardPost ==
    /\ ep = "card" /\ pc = "idle"
    /\ card' = CardAnswer(cardReq.symbol, cardReq.completion, cardReq.text)
    /\ pc' = "done"
    /\ UNCHANGED << owner, turnLog, turnText, ep, env, req, resp, probe, selectedModel, modelInfo,
                    store, store0, storeFault, nextId, round, modelState,
                    tools, toolsInvoked, loopOutcome, thrown, cardReq,
                    aborted, finishReason, stream, stepLog, delivered,
                    sessions, race, offer, pick >>

CardNext == CardPost

CardSpec == CardInit /\ [][CardNext]_vars

\* The card request was answered for a text the model returned.
CardAnswered ==
    ep = "card" /\ pc = "done" /\ cardReq.completion = "returns"

\* Some part of the text is the text of a JSON object.
ContainsObjectText(s) ==
    \E i \in 1..Len(s) : \E k \in i..Len(s) : IsObjectText(SubSeq(s, i, k))

\* C8: a non-empty response text that holds no parseable JSON object is
\* answered success:false with status 502.
C8_NoObjectAnswered502 ==
    ( /\ CardAnswered
      /\ trim(cardReq.text) # << >>
      /\ ~ContainsObjectText(cardReq.text) )
    => (card.status = 502 /\ ~card.success)

\* The texts of C9: one object with title and content, bare or fenced,
\* between prose without braces, of any length.
CardShapedTexts ==
    { Framed(n, f, o, m) :
        n \in 0..MaxProse, f \in Fences, o \in CardObjectTexts,
        m \in 0..MaxTail }

\* C9: for such a text the card endpoint answers success:true with the
\* title and the content of the object.
C9_CardParsedFromFramedObject ==
    (CardAnswered /\ cardReq.text \in CardShapedTexts)
    => (card.success /\ card.status = 200
        /\ card.title = "T" /\ card.content = "C")

====
